---------------------------- MODULE Spec2Model ----------------------------
(***************************************************************************)
(* A model of the ccusage_gui usage pipeline:                              *)
(*   - CostCalculator   (src/ccusage_gui/cost_calculator.py)               *)
(*   - ReportGenerator  (src/ccusage_gui/reports.py)                       *)
(*   - DataLoader       (src/ccusage_gui/data_loader.py)                   *)
(*   - MainApplication  (src/ccusage_gui/gui.py), its calls into the       *)
(*     loader from the main thread and from its background threads         *)
(*   - ConfigManager    (src/ccusage_gui/config.py), load_config and the   *)
(*     configuration file with its backups                                 *)
(*                                                                         *)
(* Conventions                                                             *)
(*   Optional values: None is <<>>, Some(x) is <<x>>.                      *)
(*   Strings that the code searches (model names) are sequences of         *)
(*   one-character strings, so that `a in b` is a real substring test.     *)
(*   Money: a rate is an integer number of 1/2000 dollar per 1000 tokens   *)
(*   (every built-in rate, and every rate scaled by n/20, is then an       *)
(*   integer) and a cost is tokens * rate, i.e. an integer number of       *)
(*   1/2,000,000 dollar.  The code computes the same quantities in         *)
(*   binary floating point; the model is exact.                            *)
(*   Time: the clock counts ticks, TicksPerDay ticks to the day.           *)
(***************************************************************************)
EXTENDS Integers, Sequences, FiniteSets, TLC

VARIABLES
    \* ---- CostCalculator
    phase,              \* "new" before __init__ has run, "ready" after
    offline,            \* self.offline
    currency,           \* self.currency
    cacheFile,          \* pricing_cache.json in the working directory
    pricingCache,       \* self._pricing_cache (insertion-ordered dict)
    lastPricingUpdate,  \* self._last_pricing_update
    now,                \* datetime.now()
    loaded,             \* what _load_pricing_cache produced in __init__
    last,               \* the last pricing call and what it returned
    costCall            \* the last calculate_cost call since the table was
                        \* last written, and its result

pricingVars == <<phase, offline, currency, cacheFile, pricingCache,
                 lastPricingUpdate, now, loaded, last, costCall>>

VARIABLES
    \* ---- ReportGenerator
    records,            \* the record list handed to the report generators
    report              \* the last report call on that list and its result

reportVars == <<records, report>>

\* DataLoader: the log files on disk, the loader's _cache, and how the last
\* load_usage_data call ended
VARIABLES logFiles, usageCache, loadResult
loaderVars == <<logFiles, usageCache, loadResult>>

\* MainApplication: where its main thread and its background threads stand
VARIABLES gui
guiVars == <<gui>>

\* ConfigManager: the configuration file, its backups, and where a
\* load_config call stands
VARIABLES config
configVars == <<config>>

vars == <<pricingVars, reportVars, loaderVars, guiVars, configVars>>

\* what the calls of one component leave alone
besideCalculator == <<reportVars, loaderVars, guiVars, configVars>>
besideReports == <<pricingVars, loaderVars, guiVars, configVars>>
besideLoader == <<pricingVars, reportVars, guiVars, configVars>>
besideGui == <<reportVars, logFiles, loadResult, configVars>>

None == <<>>
Some(x) == <<x>>

\* F of the value of v, a local variable assigned once and read many times
Once(v, F(_)) == CHOOSE res \in {F(x) : x \in {v}} : TRUE

-----------------------------------------------------------------------------
(* Bounds of the model *)

\* clock resolution
TicksPerDay == 2
\* days the clock may run past the start of the model
MaxElapsedDays == 8
\* length of the record list handed to a report generator
MaxRecords == 3

\* the log files, and the lines in them all together
MaxFiles == 2
MaxLines == 2

-----------------------------------------------------------------------------
(* Strings *)

Chr_claude == <<"c", "l", "a", "u", "d", "e">>
Chr_Claude == <<"C", "l", "a", "u", "d", "e">>
Chr_opus == <<"o", "p", "u", "s">>
Chr_sonnet == <<"s", "o", "n", "n", "e", "t">>
Chr_Sonnet == <<"S", "o", "n", "n", "e", "t">>
Chr_haiku == <<"h", "a", "i", "k", "u">>
Chr_gpt == <<"g", "p", "t">>
Chr_dash == <<"-">>
Chr_3 == <<"3">>
Chr_4 == <<"4">>
Chr_5 == <<"5">>
Chr_20240229 == <<"2", "0", "2", "4", "0", "2", "2", "9">>
Chr_20241022 == <<"2", "0", "2", "4", "1", "0", "2", "2">>
Chr_20240307 == <<"2", "0", "2", "4", "0", "3", "0", "7">>

\* str.lower() on the letters that occur in the names of the model
LowerChar(c) ==
    CASE c = "C" -> "c"
      [] c = "S" -> "s"
      [] c = "O" -> "o"
      [] c = "H" -> "h"
      [] OTHER -> c

Lower(s) == [i \in 1..Len(s) |-> LowerChar(s[i])]

\* Python's `a in b` for strings
IsInfix(a, b) ==
    \E i \in 0..(Len(b) - Len(a)) : SubSeq(b, i + 1, i + Len(a)) = a

-----------------------------------------------------------------------------
(* Model names *)

\* the keys of DEFAULT_PRICING
OpusKey == Chr_claude \o Chr_dash \o Chr_3 \o Chr_dash \o Chr_opus
           \o Chr_dash \o Chr_20240229
SonnetKey == Chr_claude \o Chr_dash \o Chr_3 \o Chr_dash \o Chr_5 \o Chr_dash
             \o Chr_sonnet \o Chr_dash \o Chr_20241022
HaikuKey == Chr_claude \o Chr_dash \o Chr_3 \o Chr_dash \o Chr_haiku
            \o Chr_dash \o Chr_20240307

\* "claude-3-opus": contained in a default key
ShortOpus == Chr_claude \o Chr_dash \o Chr_3 \o Chr_dash \o Chr_opus
\* "claude-3-5-sonnet": a key a hand-written cache file may hold
ShortSonnet == Chr_claude \o Chr_dash \o Chr_3 \o Chr_dash \o Chr_5
               \o Chr_dash \o Chr_sonnet
\* "claude-3": contained in every default key
Claude3 == Chr_claude \o Chr_dash \o Chr_3
\* "claude-opus-4": no key matches, the family does
Opus4 == Chr_claude \o Chr_dash \o Chr_opus \o Chr_dash \o Chr_4
\* "Claude-Sonnet-4": the family matches only after lower()
UpperSonnet4 == Chr_Claude \o Chr_dash \o Chr_Sonnet \o Chr_dash \o Chr_4
\* "claude-haiku-4"
Haiku4 == Chr_claude \o Chr_dash \o Chr_haiku \o Chr_dash \o Chr_4
\* "gpt-4": nothing matches
Gpt4 == Chr_gpt \o Chr_dash \o Chr_4

ModelNames ==
    {OpusKey, SonnetKey, HaikuKey, ShortOpus, ShortSonnet, Claude3,
     Opus4, UpperSonnet4, Haiku4, Gpt4}

-----------------------------------------------------------------------------
(* ModelPricing and the pricing table *)

\* tokens per priced unit: a rate is a price per 1000 tokens
PerK == 1000
\* _is_pricing_stale(max_age_days=7)
MaxAgeDays == 7

\* cost units in one dollar (a rate unit is 1/2000 dollar per PerK tokens)
UnitsPerDollar == PerK * 2000

\* A ModelPricing value.  The dataclass field last_updated is written but
\* never read by the code and is left out.
Pricing(k, i, o, cc, cr, cur) ==
    [model_name |-> k, input_price_per_1k |-> i, output_price_per_1k |-> o,
     cache_creation_price_per_1k |-> cc, cache_read_price_per_1k |-> cr,
     currency |-> cur]

\* CostCalculator.DEFAULT_PRICING, in the order the dict literal lists it
\* (15.0, 75.0, 18.75, 1.5 / 3.0, 15.0, 3.75, 0.3 / 0.25, 1.25, 0.3, 0.03)
DEFAULT_PRICING ==
    << Pricing(OpusKey, 30000, 150000, 37500, 3000, "USD"),
       Pricing(SonnetKey, 6000, 30000, 7500, 600, "USD"),
       Pricing(HaikuKey, 500, 2500, 600, 60, "USD") >>

Currencies == {"USD", "EUR"}

\* A dict is the sequence of its values in insertion order; the key of a
\* pricing entry is its model_name.
Keys(d) == {d[i].model_name : i \in 1..Len(d)}

\* d[k]
Get(d, k) == d[CHOOSE i \in 1..Len(d) : d[i].model_name = k]

\* d[e.model_name] = e : an existing key keeps its place, a new one is appended
DictSet(d, e) ==
    IF e.model_name \in Keys(d)
    THEN [i \in 1..Len(d) |-> IF d[i].model_name = e.model_name THEN e ELSE d[i]]
    ELSE Append(d, e)

\* d.update(u)
RECURSIVE DictUpdate(_, _)
DictUpdate(d, u) ==
    IF u = <<>> THEN d ELSE DictUpdate(DictSet(d, Head(u)), Tail(u))

-----------------------------------------------------------------------------
(* The persisted cache file *)

\* the factors random.uniform(0.95, 1.05) draws for the three default models,
\* in twentieths: the draws the model follows
FetchVariations == {<<19, 21, 20>>, <<21, 19, 21>>}

\* base_pricing.x * variation
Scaled(x, v) == (x * v) \div 20

\* _fetch_pricing_from_api when it succeeds, vs[i] the factor drawn for the
\* i-th model: every default model, re-priced, in the calculator's currency
FetchedPricing(vs, cur) ==
    [i \in 1..Len(DEFAULT_PRICING) |->
        Pricing(DEFAULT_PRICING[i].model_name,
                Scaled(DEFAULT_PRICING[i].input_price_per_1k, vs[i]),
                Scaled(DEFAULT_PRICING[i].output_price_per_1k, vs[i]),
                Scaled(DEFAULT_PRICING[i].cache_creation_price_per_1k, vs[i]),
                Scaled(DEFAULT_PRICING[i].cache_read_price_per_1k, vs[i]),
                cur)]

\* What a fetch can do: return a table, return None (it caught its own
\* error), or raise (an error its own handler does not see).
FetchOutcomes ==
    {[kind |-> "ok", vs |-> vs] : vs \in FetchVariations}
    \cup {[kind |-> "none", vs |-> <<>>], [kind |-> "raise", vs |-> <<>>]}

\* pricing_cache.json.  parsable = json.load succeeds; last_updated = the
\* 'last_updated' key (None: no such key); pricing = the entries of the
\* 'pricing' object that are well formed, in file order (loading stops at the
\* first malformed entry, so a malformed file behaves as its good prefix).
CacheFile(ex, ok, lu, pr) ==
    [exists |-> ex, parsable |-> ok, last_updated |-> lu, pricing |-> pr]

NoFile == CacheFile(FALSE, FALSE, None, <<>>)

\* a table a user wrote by hand
CustomPricing == << Pricing(ShortSonnet, 8000, 40000, 10000, 800, "EUR") >>

\* the clock when the calculator is constructed
StartNow == (MaxAgeDays + 1) * TicksPerDay

\* ages of the watermark in a cache file found at construction
FileAges == {0, (MaxAgeDays - 1) * TicksPerDay, MaxAgeDays * TicksPerDay,
             MaxAgeDays * TicksPerDay + 1, (MaxAgeDays + 1) * TicksPerDay}

\* a file the program saved after a refresh
SavedPricing == FetchedPricing(<<19, 19, 19>>, "USD")

\* the cache files of the refresh life cycle: every age, few tables
CacheFiles ==
    {NoFile, CacheFile(TRUE, FALSE, None, <<>>),
     CacheFile(TRUE, TRUE, None, SavedPricing),
     CacheFile(TRUE, TRUE, Some(StartNow), <<>>)}
    \cup {CacheFile(TRUE, TRUE, Some(StartNow - a), SavedPricing) : a \in FileAges}

\* the cache files of the pricing look-ups: every table, few ages
CostCacheFiles ==
    {NoFile,
     CacheFile(TRUE, TRUE, Some(StartNow), SavedPricing),
     CacheFile(TRUE, TRUE, Some(StartNow), CustomPricing),
     CacheFile(TRUE, TRUE, None, CustomPricing)}

\* _load_pricing_cache without the seeding of an empty table
LoadPricingCache_NoSeed(f) ==
    LET readOk == f.exists /\ f.parsable
    IN [cache |-> IF readOk THEN f.pricing ELSE <<>>,
        watermark |-> IF readOk THEN f.last_updated ELSE None]

\* _load_pricing_cache: the table and the watermark after it
LoadPricingCache(f) ==
    LET readOk == f.exists /\ f.parsable
        table == IF readOk THEN f.pricing ELSE <<>>
    IN [cache |-> IF table = <<>> THEN DEFAULT_PRICING ELSE table,
        watermark |-> IF readOk THEN f.last_updated ELSE None]

\* _save_pricing_cache: the file it writes; a failed write is caught and
\* leaves the file as it was
SavePricingCache(f, cache, t, ok) ==
    IF ok THEN CacheFile(TRUE, TRUE, Some(t), cache) ELSE f

-----------------------------------------------------------------------------
(* Staleness and refresh *)

\* _is_pricing_stale with >= for >
IsPricingStale_AtLeast(wm, t) ==
    IF wm = None THEN TRUE ELSE (t - wm[1]) >= MaxAgeDays * TicksPerDay

\* _is_pricing_stale
IsPricingStale(wm, t) ==
    IF wm = None THEN TRUE ELSE (t - wm[1]) > MaxAgeDays * TicksPerDay

\* a refresh that installs whatever the fetch gave, nothing when it failed
RefreshFrom_InstallsFailure(cache, wm, f, t, out, cur, saveOk) ==
    LET c2 == IF out.kind = "ok"
              THEN DictUpdate(cache, FetchedPricing(out.vs, cur)) ELSE <<>>
    IN [cache |-> c2, watermark |-> Some(t),
        file |-> SavePricingCache(f, c2, t, saveOk), ret |-> out.kind = "ok"]

\* The body of update_pricing from the `try` on: the fetch has been decided.
\* Returns the new table, watermark and file, and the return value.
RefreshFrom(cache, wm, f, t, out, cur, saveOk) ==
    IF out.kind = "ok"
    THEN LET c2 == DictUpdate(cache, FetchedPricing(out.vs, cur))
         IN [cache |-> c2, watermark |-> Some(t),
             file |-> SavePricingCache(f, c2, t, saveOk), ret |-> TRUE]
    ELSE [cache |-> cache, watermark |-> wm, file |-> f, ret |-> FALSE]

\* update_pricing without the offline test
UpdatePricing_IgnoresOffline(off, force, cache, wm, f, t, out, cur, saveOk) ==
    IF ~force /\ ~IsPricingStale(wm, t)
    THEN [cache |-> cache, watermark |-> wm, file |-> f, ret |-> TRUE,
          fetched |-> FALSE]
    ELSE [fetched |-> TRUE] @@ RefreshFrom(cache, wm, f, t, out, cur, saveOk)

\* update_pricing without the force test
UpdatePricing_IgnoresForce(off, force, cache, wm, f, t, out, cur, saveOk) ==
    IF off
    THEN [cache |-> cache, watermark |-> wm, file |-> f, ret |-> FALSE,
          fetched |-> FALSE]
    ELSE IF ~IsPricingStale(wm, t)
    THEN [cache |-> cache, watermark |-> wm, file |-> f, ret |-> TRUE,
          fetched |-> FALSE]
    ELSE [fetched |-> TRUE] @@ RefreshFrom(cache, wm, f, t, out, cur, saveOk)

\* update_pricing(force): fetched tells whether the fetch was attempted
UpdatePricing(off, force, cache, wm, f, t, out, cur, saveOk) ==
    IF off
    THEN [cache |-> cache, watermark |-> wm, file |-> f, ret |-> FALSE,
          fetched |-> FALSE]
    ELSE IF ~force /\ ~IsPricingStale(wm, t)
    THEN [cache |-> cache, watermark |-> wm, file |-> f, ret |-> TRUE,
          fetched |-> FALSE]
    ELSE [fetched |-> TRUE] @@ RefreshFrom(cache, wm, f, t, out, cur, saveOk)

-----------------------------------------------------------------------------
(* UsageRecord *)

\* session ids, as strings of characters
Session1 == <<"s", "1">>
Session2 == <<"s", "2">>
Session3 == <<"s", "3">>

\* A UsageRecord.  timestamp counts minutes from 2024-01-01 00:00; aware
\* tells whether the datetime carries a UTC offset (tzinfo is set).
\* project_id and project_name default to None.
UsageRecord(ts, aw, sid, m, i, o, cc, cr) ==
    [timestamp |-> ts, aware |-> aw, session_id |-> sid, model |-> m,
     input_tokens |-> i, output_tokens |-> o,
     cache_creation_tokens |-> cc, cache_read_tokens |-> cr,
     project_id |-> None, project_name |-> None]

\* UsageRecord(..., project_id=id, project_name=name)
InProject(r, id, name) ==
    [r EXCEPT !.project_id = id, !.project_name = name]

\* UsageRecord.total_tokens
TotalTokens(r) ==
    r.input_tokens + r.output_tokens
    + r.cache_creation_tokens + r.cache_read_tokens

-----------------------------------------------------------------------------
(* Pricing resolution and cost *)

SetMin(S) == CHOOSE x \in S : \A y \in S : x <= y

\* sum(s) for a sequence of integers
RECURSIVE SumSeq(_)
SumSeq(s) == IF s = <<>> THEN 0 ELSE Head(s) + SumSeq(Tail(s))

\* the members of a set of integers, in increasing order
RECURSIVE Ascending(_)
Ascending(S) ==
    IF S = {} THEN <<>> ELSE <<SetMin(S)>> \o Ascending(S \ {SetMin(S)})

\* the loop of get_model_pricing over the cached keys: the first key, in
\* iteration order, that contains the name or is contained in it
PartialMatch(cache, name) ==
    LET hits == {i \in 1..Len(cache) :
                    \/ IsInfix(name, cache[i].model_name)
                    \/ IsInfix(cache[i].model_name, name)}
    IN IF hits = {} THEN None ELSE Some(cache[SetMin(hits)])

\* the family fallback of get_model_pricing
FamilyDefault(name) ==
    IF IsInfix(Chr_opus, Lower(name)) THEN Some(Get(DEFAULT_PRICING, OpusKey))
    ELSE IF IsInfix(Chr_sonnet, Lower(name)) THEN Some(Get(DEFAULT_PRICING, SonnetKey))
    ELSE IF IsInfix(Chr_haiku, Lower(name)) THEN Some(Get(DEFAULT_PRICING, HaikuKey))
    ELSE None

\* get_model_pricing with the family fallback tried before the cached keys
GetModelPricing_FamilyFirst(cache, name) ==
    IF name \in Keys(cache) THEN Some(Get(cache, name))
    ELSE IF FamilyDefault(name) # None THEN FamilyDefault(name)
    ELSE PartialMatch(cache, name)

\* get_model_pricing
GetModelPricing(cache, name) ==
    IF name \in Keys(cache) THEN Some(Get(cache, name))
    ELSE IF PartialMatch(cache, name) # None THEN PartialMatch(cache, name)
    ELSE FamilyDefault(name)

\* the rate taken as a price per token
BucketCost_PerToken(tokens, rate) == tokens * rate * PerK

\* (tokens / 1000) * rate, in cost units
BucketCost(tokens, rate) == tokens * rate

\* calculate_cost pricing a record of an unresolvable model at the built-in
\* Sonnet rates
CalculateCost_UnpricedAsSonnet(cache, r) ==
    LET q == GetModelPricing(cache, r.model)
        p == IF q = None THEN Get(DEFAULT_PRICING, SonnetKey) ELSE q[1]
        ic == BucketCost(r.input_tokens, p.input_price_per_1k)
        oc == BucketCost(r.output_tokens, p.output_price_per_1k)
        cc == BucketCost(r.cache_creation_tokens, p.cache_creation_price_per_1k)
        rc == BucketCost(r.cache_read_tokens, p.cache_read_price_per_1k)
    IN Some([input_cost |-> ic, output_cost |-> oc,
             cache_creation_cost |-> cc, cache_read_cost |-> rc,
             total_cost |-> ic + oc + cc + rc,
             currency |-> p.currency, model |-> r.model])

\* calculate_cost
CalculateCost(cache, r) ==
    LET p == GetModelPricing(cache, r.model)
    IN IF p = None THEN None
       ELSE LET ic == BucketCost(r.input_tokens, p[1].input_price_per_1k)
                oc == BucketCost(r.output_tokens, p[1].output_price_per_1k)
                cc == BucketCost(r.cache_creation_tokens,
                                 p[1].cache_creation_price_per_1k)
                rc == BucketCost(r.cache_read_tokens,
                                 p[1].cache_read_price_per_1k)
            IN Some([input_cost |-> ic, output_cost |-> oc,
                     cache_creation_cost |-> cc, cache_read_cost |-> rc,
                     total_cost |-> ic + oc + cc + rc,
                     currency |-> p[1].currency, model |-> r.model])

\* token counts of the records priced by calculate_cost calls
CostTokens == {<<1000, 500, 0, 0>>, <<0, 0, 1000, 2000>>, <<1, 2, 3, 4>>}

\* the records priced by calculate_cost calls: every name with one token
\* vector, and the Sonnet key with all of them
CostRecords ==
    {UsageRecord(0, FALSE, Session1, m, 1, 2, 3, 4) : m \in ModelNames}
    \cup {UsageRecord(0, FALSE, Session1, SonnetKey, t[1], t[2], t[3], t[4]) :
            t \in CostTokens}

\* calculate_total_cost: the dict it returns, the totals and the per-model
\* costs of the records that could be priced.  The number of records that
\* could not is a local of the call, written to the log and dropped.
CalculateTotalCost(cache, recs) ==
    LET calc == [i \in 1..Len(recs) |-> CalculateCost(cache, recs[i])]
        priced == {i \in 1..Len(recs) : calc[i] # None}
        Part(i, f) == IF i \in priced THEN calc[i][1][f] ELSE 0
        Total(f) == SumSeq([i \in 1..Len(recs) |-> Part(i, f)])
    IN [input_cost |-> Total("input_cost"),
        output_cost |-> Total("output_cost"),
        cache_creation_cost |-> Total("cache_creation_cost"),
        cache_read_cost |-> Total("cache_read_cost"),
        total_cost |-> Total("total_cost"),
        model_breakdown |->
            [m \in {recs[i].model : i \in priced} |->
                SumSeq([i \in 1..Len(recs) |->
                          IF recs[i].model = m THEN Part(i, "total_cost") ELSE 0])]]

-----------------------------------------------------------------------------
(* CostCalculator: the calls *)

\* no call has returned since the clock last moved
Idle == [op |-> "none", force |-> FALSE, at |-> 0, wm |-> None,
         fetched |-> FALSE, outcome |-> "none", ret |-> None]

InitCalculator(cacheFiles, currencies) ==
    /\ phase = "new"
    /\ offline \in BOOLEAN
    /\ currency \in currencies
    /\ cacheFile \in cacheFiles
    /\ pricingCache = <<>>
    /\ lastPricingUpdate = None
    /\ now = StartNow
    /\ loaded = None
    /\ last = Idle
    /\ costCall = None

\* CostCalculator.__init__: load the cache, then refresh if not offline and
\* the loaded cache is stale
Construct(out, saveOk) ==
    /\ phase = "new"
    /\ LET ld == LoadPricingCache(cacheFile)
           call == ~offline /\ IsPricingStale(ld.watermark, now)
           u == UpdatePricing(offline, FALSE, ld.cache, ld.watermark,
                              cacheFile, now, out, currency, saveOk)
       IN /\ loaded' = Some(ld)
          /\ pricingCache' = IF call THEN u.cache ELSE ld.cache
          /\ lastPricingUpdate' = IF call THEN u.watermark ELSE ld.watermark
          /\ cacheFile' = IF call THEN u.file ELSE cacheFile
          /\ last' = [op |-> "init", force |-> FALSE, at |-> now,
                      wm |-> ld.watermark,
                      fetched |-> call /\ u.fetched,
                      outcome |-> IF call /\ u.fetched THEN out.kind ELSE "none",
                      ret |-> IF call THEN Some(u.ret) ELSE None]
    /\ phase' = "ready"
    /\ UNCHANGED <<offline, currency, now, costCall, besideCalculator>>

\* update_pricing(force)
UpdatePricingCall(force, out, saveOk) ==
    /\ phase = "ready"
    /\ LET u == UpdatePricing(offline, force, pricingCache, lastPricingUpdate,
                              cacheFile, now, out, currency, saveOk)
       IN /\ pricingCache' = u.cache
          /\ lastPricingUpdate' = u.watermark
          /\ cacheFile' = u.file
          /\ last' = [op |-> "update", force |-> force, at |-> now,
                      wm |-> lastPricingUpdate, fetched |-> u.fetched,
                      outcome |-> IF u.fetched THEN out.kind ELSE "none",
                      ret |-> Some(u.ret)]
    /\ costCall' = None
    /\ UNCHANGED <<phase, offline, currency, now, loaded, besideCalculator>>

\* get_pricing_info: its 'is_stale' entry
GetPricingInfo ==
    /\ phase = "ready"
    /\ last' = [op |-> "info", force |-> FALSE, at |-> now,
                wm |-> lastPricingUpdate, fetched |-> FALSE, outcome |-> "none",
                ret |-> Some(IsPricingStale(lastPricingUpdate, now))]
    /\ UNCHANGED <<phase, offline, currency, cacheFile, pricingCache,
                   lastPricingUpdate, now, loaded, costCall, besideCalculator>>

\* calculate_cost(record)
CalculateCostCall(r) ==
    /\ phase = "ready"
    /\ costCall' = Some([record |-> r,
                         pricing |-> GetModelPricing(pricingCache, r.model),
                         result |-> CalculateCost(pricingCache, r)])
    /\ UNCHANGED <<phase, offline, currency, cacheFile, pricingCache,
                   lastPricingUpdate, now, loaded, last, besideCalculator>>

\* the instants at which the model lets calls happen
ClockInstants ==
    {StartNow + e :
        e \in {e \in {0, 1, (MaxAgeDays - 1) * TicksPerDay,
                      MaxAgeDays * TicksPerDay, MaxAgeDays * TicksPerDay + 1,
                      (MaxAgeDays + 1) * TicksPerDay} :
                  e <= MaxElapsedDays * TicksPerDay}}

\* the clock moves on to t
Advance(t) ==
    /\ phase = "ready"
    /\ t > now
    /\ now' = t
    /\ last' = Idle
    /\ costCall' = None
    /\ UNCHANGED <<phase, offline, currency, cacheFile, pricingCache,
                   lastPricingUpdate, loaded, besideCalculator>>

-----------------------------------------------------------------------------
(* Calendar: datetimes are minutes from Monday 2024-01-01 00:00 *)

MinutesPerDay == 24 * 60

\* the datetime of day d (0 = 2024-01-01) at hh:mm
At(d, hh, mm) == (d * 24 + hh) * 60 + mm

\* a datetime value: the instant, and whether tzinfo is set
Stamp(ts, aw) == [ts |-> ts, aware |-> aw]

\* datetime.date(), as a day number
DateOf(ts) == ts \div MinutesPerDay

\* datetime.weekday(): Monday is 0
Weekday(ts) == DateOf(ts) % 7

\* the days of the months of 2024 the model covers (January to March)
MonthLengths == <<31, 29, 31>>

\* the day number of the first day of month m
MonthStart(m) == SumSeq(SubSeq(MonthLengths, 1, m - 1))

\* datetime.month
MonthOf(ts) ==
    CHOOSE m \in 1..Len(MonthLengths) :
        /\ MonthStart(m) <= DateOf(ts)
        /\ DateOf(ts) < MonthStart(m) + MonthLengths[m]

-----------------------------------------------------------------------------
(* ReportGenerator *)

\* _filter_by_date_range.  Comparing an aware datetime with a naive one
\* raises TypeError, which no report generator catches.
FilterByDateRange(recs, start, end) ==
    LET clash1 == start # None
                  /\ \E i \in 1..Len(recs) : recs[i].aware # start[1].aware
        f1 == IF start = None THEN recs
              ELSE SelectSeq(recs, LAMBDA r : r.timestamp >= start[1].ts)
        clash2 == end # None
                  /\ \E i \in 1..Len(f1) : f1[i].aware # end[1].aware
        f2 == IF end = None THEN f1
              ELSE SelectSeq(f1, LAMBDA r : r.timestamp <= end[1].ts)
    IN IF clash1 THEN [status |-> "TypeError", records |-> <<>>]
       ELSE IF clash2 THEN [status |-> "TypeError", records |-> <<>>]
       ELSE [status |-> "ok", records |-> f2]

\* one group listed per record instead of one per key
GroupKeys_PerRecord(ks) == ks

\* the keys of a defaultdict(list) filled in the order of ks, in insertion
\* order
GroupKeys(ks) ==
    LET first == {i \in 1..Len(ks) : \A j \in 1..(i - 1) : ks[j] # ks[i]}
        idx == Ascending(first)
    IN [n \in 1..Len(idx) |-> ks[idx[n]]]

\* the list the defaultdict holds under key k: the records whose key is k,
\* in the order they came
GroupOf(recs, ks, k) ==
    LET idx == Ascending({i \in 1..Len(ks) : ks[i] = k})
    IN [n \in 1..Len(idx) |-> recs[idx[n]]]

\* a sort that is ascending whatever the caller asks
SortByKey_AlwaysAscending(items, ks, reverse) ==
    LET Before(j, i) == ks[j] < ks[i] \/ (ks[j] = ks[i] /\ j < i)
        pos == [i \in 1..Len(items) |->
                  1 + Cardinality({j \in 1..Len(items) : Before(j, i)})]
    IN [n \in 1..Len(items) |->
          items[CHOOSE i \in 1..Len(items) : pos[i] = n]]

\* list.sort(key=..., reverse=...) of items whose keys are ks: stable, also
\* when reversed
SortByKey(items, ks, reverse) ==
    LET Before(j, i) ==
            \/ (IF reverse THEN ks[j] > ks[i] ELSE ks[j] < ks[i])
            \/ (ks[j] = ks[i] /\ j < i)
        pos == [i \in 1..Len(items) |->
                  1 + Cardinality({j \in 1..Len(items) : Before(j, i)})]
    IN [n \in 1..Len(items) |->
          items[CHOOSE i \in 1..Len(items) : pos[i] = n]]

\* the entry with each model's cost taken as its share, by record count, of
\* the group's total cost
CreateReportEntry_SharedCost(cache, date, recs) ==
    LET total == CalculateTotalCost(cache, recs).total_cost
        Of(m, f) == SumSeq([i \in 1..Len(recs) |->
                              IF recs[i].model = m THEN recs[i][f] ELSE 0])
        Count(m) == Cardinality({i \in 1..Len(recs) : recs[i].model = m})
    IN [date |-> date,
        total_tokens |-> SumSeq([i \in 1..Len(recs) |-> TotalTokens(recs[i])]),
        input_tokens |-> SumSeq([i \in 1..Len(recs) |-> recs[i].input_tokens]),
        output_tokens |-> SumSeq([i \in 1..Len(recs) |-> recs[i].output_tokens]),
        cache_creation_tokens |->
            SumSeq([i \in 1..Len(recs) |-> recs[i].cache_creation_tokens]),
        cache_read_tokens |->
            SumSeq([i \in 1..Len(recs) |-> recs[i].cache_read_tokens]),
        total_cost |-> total,
        model_breakdown |->
            [m \in {recs[i].model : i \in 1..Len(recs)} |->
                [tokens |-> SumSeq([i \in 1..Len(recs) |->
                                IF recs[i].model = m
                                THEN TotalTokens(recs[i]) ELSE 0]),
                 input_tokens |-> Of(m, "input_tokens"),
                 output_tokens |-> Of(m, "output_tokens"),
                 cache_creation_tokens |-> Of(m, "cache_creation_tokens"),
                 cache_read_tokens |-> Of(m, "cache_read_tokens"),
                 cost |-> (total * Count(m)) \div Len(recs),
                 count |-> Count(m)]],
        record_count |-> Len(recs)]

\* _create_report_entry
CreateReportEntry(cache, date, recs) ==
    LET Field(f) == SumSeq([i \in 1..Len(recs) |-> recs[i][f]])
        Of(m, f) == SumSeq([i \in 1..Len(recs) |->
                              IF recs[i].model = m THEN recs[i][f] ELSE 0])
        cost_breakdown == CalculateTotalCost(cache, recs)
        CostOf(r) == LET c == CalculateCost(cache, r)
                     IN IF c # None THEN c[1].total_cost ELSE 0
    IN [date |-> date,
        total_tokens |-> SumSeq([i \in 1..Len(recs) |-> TotalTokens(recs[i])]),
        input_tokens |-> Field("input_tokens"),
        output_tokens |-> Field("output_tokens"),
        cache_creation_tokens |-> Field("cache_creation_tokens"),
        cache_read_tokens |-> Field("cache_read_tokens"),
        total_cost |-> cost_breakdown.total_cost,
        model_breakdown |->
            [m \in {recs[i].model : i \in 1..Len(recs)} |->
                [tokens |-> SumSeq([i \in 1..Len(recs) |->
                                IF recs[i].model = m
                                THEN TotalTokens(recs[i]) ELSE 0]),
                 input_tokens |-> Of(m, "input_tokens"),
                 output_tokens |-> Of(m, "output_tokens"),
                 cache_creation_tokens |-> Of(m, "cache_creation_tokens"),
                 cache_read_tokens |-> Of(m, "cache_read_tokens"),
                 cost |-> SumSeq([i \in 1..Len(recs) |->
                                IF recs[i].model = m
                                THEN CostOf(recs[i]) ELSE 0]),
                 count |-> Cardinality({i \in 1..Len(recs) :
                                          recs[i].model = m})]],
        record_count |-> Len(recs)]

\* the week counted forward: midnight of the day (week_start_day - weekday)
\* % 7 days before the date
GetWeekStart_Mirrored(ts, week_start_day) ==
    (DateOf(ts) - ((week_start_day - Weekday(ts)) % 7)) * MinutesPerDay

\* _get_week_start: midnight of the day (weekday - week_start_day) % 7 days
\* before the date
GetWeekStart(ts, week_start_day) ==
    (DateOf(ts) - ((Weekday(ts) - week_start_day) % 7)) * MinutesPerDay

\* The common shape of the daily, weekly and monthly generators: filter,
\* group under the anchors ks (one per filtered record), one entry per
\* anchor, sort by entry date.
CalendarReport(cache, filtered, ks, order) ==
    LET keys == GroupKeys(ks)
        entries == [n \in 1..Len(keys) |->
                      CreateReportEntry(cache, keys[n],
                                        GroupOf(filtered, ks, keys[n]))]
    IN SortByKey(entries, keys, order = "desc")

\* generate_daily_report
GenerateDailyReport(cache, recs, start, end, order) ==
    LET f == FilterByDateRange(recs, start, end)
        ks == [i \in 1..Len(f.records) |->
                 DateOf(f.records[i].timestamp) * MinutesPerDay]
    IN IF f.status # "ok" THEN [status |-> f.status, entries |-> <<>>]
       ELSE [status |-> "ok",
             entries |-> CalendarReport(cache, f.records, ks, order)]

\* generate_monthly_report
GenerateMonthlyReport(cache, recs, start, end, order) ==
    LET f == FilterByDateRange(recs, start, end)
        ks == [i \in 1..Len(f.records) |->
                 MonthStart(MonthOf(f.records[i].timestamp)) * MinutesPerDay]
    IN IF f.status # "ok" THEN [status |-> f.status, entries |-> <<>>]
       ELSE [status |-> "ok",
             entries |-> CalendarReport(cache, f.records, ks, order)]

\* generate_weekly_report
GenerateWeeklyReport(cache, recs, start, end, week_start_day, order) ==
    LET f == FilterByDateRange(recs, start, end)
        ks == [i \in 1..Len(f.records) |->
                 GetWeekStart(f.records[i].timestamp, week_start_day)]
    IN IF f.status # "ok" THEN [status |-> f.status, entries |-> <<>>]
       ELSE [status |-> "ok",
             entries |-> CalendarReport(cache, f.records, ks, order)]

\* what a generator leaves when a comparison of datetimes raises
Raised == [status |-> "TypeError", entries |-> <<>>]

\* a list holds both aware and naive datetimes: sorting it raises TypeError
MixedAwareness(stamps) ==
    \E i, j \in 1..Len(stamps) : stamps[i].aware # stamps[j].aware

\* the SessionReportEntry built from one session's records once they are
\* sorted by timestamp
SessionEntryOf(cache, session_id, sorted) ==
    LET first == sorted[1]
        final == sorted[Len(sorted)]
        Sum(f) == SumSeq([i \in 1..Len(sorted) |-> sorted[i][f]])
    IN [session_id |-> session_id,
        start_time |-> Stamp(first.timestamp, first.aware),
        end_time |-> Stamp(final.timestamp, final.aware),
        duration_minutes |-> final.timestamp - first.timestamp,
        total_tokens |-> SumSeq([i \in 1..Len(sorted) |->
                                   TotalTokens(sorted[i])]),
        input_tokens |-> Sum("input_tokens"),
        output_tokens |-> Sum("output_tokens"),
        cache_creation_tokens |-> Sum("cache_creation_tokens"),
        cache_read_tokens |-> Sum("cache_read_tokens"),
        total_cost |-> CalculateTotalCost(cache, sorted).total_cost,
        models_used |-> {sorted[i].model : i \in 1..Len(sorted)},
        message_count |-> Len(sorted),
        project_id |-> first.project_id,
        project_name |-> first.project_name]

\* the entry built from the records in the order they were given
SessionEntry_Unsorted(cache, session_id, session_records) ==
    SessionEntryOf(cache, session_id, session_records)

\* the loop body of generate_session_report: session_records.sort by
\* timestamp, then the entry
SessionEntry(cache, session_id, session_records) ==
    Once(SortByKey(session_records,
                   [i \in 1..Len(session_records) |->
                      session_records[i].timestamp],
                   FALSE),
         LAMBDA sorted : SessionEntryOf(cache, session_id, sorted))

\* generate_session_report behind the filter: the groups by session_id, one
\* entry each, sorted by start_time.  The sort of one session's records, and
\* the sort of the entries, raise TypeError on a mix of aware and naive
\* timestamps.
SessionReportOf(cache, filtered, order) ==
    LET ks == [i \in 1..Len(filtered) |-> filtered[i].session_id]
        keys == GroupKeys(ks)
    IN IF \E n \in 1..Len(keys) :
             MixedAwareness(GroupOf(filtered, ks, keys[n]))
       THEN Raised
       ELSE Once([n \in 1..Len(keys) |->
                    Once(GroupOf(filtered, ks, keys[n]),
                         LAMBDA session_records :
                            SessionEntry(cache, keys[n], session_records))],
                 LAMBDA entries :
                    IF MixedAwareness([n \in 1..Len(entries) |->
                                         entries[n].start_time])
                    THEN Raised
                    ELSE [status |-> "ok",
                          entries |->
                             SortByKey(entries,
                                       [n \in 1..Len(entries) |->
                                          entries[n].start_time.ts],
                                       order = "desc")])

\* generate_session_report
GenerateSessionReport(cache, recs, start, end, order) ==
    Once(FilterByDateRange(recs, start, end),
         LAMBDA f : IF f.status # "ok"
                    THEN [status |-> f.status, entries |-> <<>>]
                    ELSE SessionReportOf(cache, f.records, order))

\* the Unix time of 2024-01-01 00:00, the instant timestamps count from; the
\* local zone is taken to be UTC
OriginEpoch == 1704067200

\* timestamp.hour
HourOf(ts) == (ts % MinutesPerDay) \div 60

\* the length of a billing block
BlockHours == 5

\* blocks of five hours counted from the origin of time, not from midnight
GetBlockStart_Rolling(ts) == (ts \div (BlockHours * 60)) * (BlockHours * 60)

\* _get_block_start: the timestamp's date at hour (hour // 5) * 5, a naive
\* datetime
GetBlockStart(ts) ==
    DateOf(ts) * MinutesPerDay + ((HourOf(ts) \div BlockHours) * BlockHours) * 60

\* the BlockReportEntry of the records under one block start; current_time
\* is datetime.now()
BlockEntry(cache, block_start, block_records, current_time) ==
    LET block_end == block_start + BlockHours * 60
        stamps == {block_records[i].timestamp : i \in 1..Len(block_records)}
        Sum(f) == SumSeq([i \in 1..Len(block_records) |->
                            block_records[i][f]])
        hours_since_epoch == OriginEpoch \div 3600 + block_start \div 60
    IN [block_start |-> block_start,
        block_end |-> block_end,
        block_number |-> hours_since_epoch \div BlockHours,
        total_tokens |-> SumSeq([i \in 1..Len(block_records) |->
                                   TotalTokens(block_records[i])]),
        input_tokens |-> Sum("input_tokens"),
        output_tokens |-> Sum("output_tokens"),
        cache_creation_tokens |-> Sum("cache_creation_tokens"),
        cache_read_tokens |-> Sum("cache_read_tokens"),
        total_cost |-> CalculateTotalCost(cache, block_records).total_cost,
        sessions_count |->
            Cardinality({block_records[i].session_id :
                           i \in 1..Len(block_records)}),
        active_duration_minutes |->
            IF Len(block_records) > 1
            THEN (CHOOSE t \in stamps : \A u \in stamps : u <= t)
                 - SetMin(stamps)
            ELSE 0,
        is_current_block |->
            block_start <= current_time /\ current_time < block_end]

\* generate_blocks_report behind the filter: the groups by block start, one
\* entry each, sorted by block_start.  sorted(block_records) raises
\* TypeError on a mix of aware and naive timestamps in one block.
BlocksReportOf(cache, filtered, order, current_time) ==
    LET ks == [i \in 1..Len(filtered) |->
                 GetBlockStart(filtered[i].timestamp)]
        keys == GroupKeys(ks)
    IN IF \E n \in 1..Len(keys) :
             MixedAwareness(GroupOf(filtered, ks, keys[n]))
       THEN Raised
       ELSE Once([n \in 1..Len(keys) |->
                    Once(GroupOf(filtered, ks, keys[n]),
                         LAMBDA block_records :
                            BlockEntry(cache, keys[n], block_records,
                                       current_time))],
                 LAMBDA entries :
                    [status |-> "ok",
                     entries |-> SortByKey(entries, keys, order = "desc")])

\* generate_blocks_report
GenerateBlocksReport(cache, recs, start, end, order, current_time) ==
    Once(FilterByDateRange(recs, start, end),
         LAMBDA f : IF f.status # "ok"
                    THEN [status |-> f.status, entries |-> <<>>]
                    ELSE BlocksReportOf(cache, f.records, order,
                                        current_time))

-----------------------------------------------------------------------------
(* ReportGenerator: the calls *)

\* the records the report generators are given
ReportRecords ==
    {UsageRecord(At(0, 6, 10), FALSE, Session1, SonnetKey, 1000, 500, 0, 0),
     UsageRecord(At(0, 7, 45), FALSE, Session1, Gpt4, 10, 20, 30, 40),
     UsageRecord(At(6, 11, 2), FALSE, Session2, OpusKey, 1, 2, 3, 4),
     UsageRecord(At(30, 23, 59), FALSE, Session2, Opus4, 100, 0, 0, 0),
     UsageRecord(At(31, 0, 0), FALSE, Session1, SonnetKey, 0, 0, 1000, 2000),
     UsageRecord(At(7, 12, 0), TRUE, Session3, HaikuKey, 5, 5, 5, 5)}

\* the start_date and end_date arguments
StartBounds ==
    {None, Some(Stamp(At(0, 7, 0), FALSE)), Some(Stamp(At(7, 0, 0), TRUE))}
EndBounds == {None, Some(Stamp(At(31, 0, 0), FALSE))}

Orders == {"asc", "desc"}
\* order: str = "desc" in every generator's signature
DefaultOrder == "desc"
WeekStartDays == {0, 6}

NoReport == [kind |-> "none", start |-> None, end |-> None, order |-> "desc",
             week_start_day |-> 0, current_time |-> None,
             status |-> "none", entries |-> <<>>]

\* no report generator is in play
NoReports ==
    /\ records = <<>>
    /\ report = NoReport

\* a calculator constructed offline with no cache file: the built-in table
DefaultCalculator ==
    /\ phase = "ready"
    /\ offline = TRUE
    /\ currency = "USD"
    /\ cacheFile = NoFile
    /\ pricingCache = DEFAULT_PRICING
    /\ lastPricingUpdate = None
    /\ now = StartNow
    /\ loaded = Some(LoadPricingCache(NoFile))
    /\ last = Idle
    /\ costCall = None

\* the caller's record list grows by one record
AppendRecord(r) ==
    /\ Len(records) < MaxRecords
    /\ records' = Append(records, r)
    /\ report' = NoReport
    /\ UNCHANGED besideReports

\* what a generator call leaves: its arguments and its outcome
Reported(kind, start, end, order, wsd, res) ==
    [kind |-> kind, start |-> start, end |-> end, order |-> order,
     week_start_day |-> wsd, current_time |-> None,
     status |-> res.status, entries |-> res.entries]

\* The generators keep no state between calls: a call returns the same
\* whether or not another call came before it, so each call is taken from
\* the state the record list was left in.
Fresh == report = NoReport

DailyReportCall(start, end, order) ==
    /\ Fresh
    /\ \E res \in {GenerateDailyReport(pricingCache, records, start, end,
                                       order)} :
          report' = Reported("daily", start, end, order, 0, res)
    /\ UNCHANGED <<records, besideReports>>

MonthlyReportCall(start, end, order) ==
    /\ Fresh
    /\ \E res \in {GenerateMonthlyReport(pricingCache, records, start, end,
                                         order)} :
          report' = Reported("monthly", start, end, order, 0, res)
    /\ UNCHANGED <<records, besideReports>>

WeeklyReportCall(start, end, wsd, order) ==
    /\ Fresh
    /\ \E res \in {GenerateWeeklyReport(pricingCache, records, start, end,
                                        wsd, order)} :
          report' = Reported("weekly", start, end, order, wsd, res)
    /\ UNCHANGED <<records, besideReports>>

SessionReportCall(start, end, order) ==
    /\ Fresh
    /\ \E res \in {GenerateSessionReport(pricingCache, records, start, end,
                                         order)} :
          report' = Reported("session", start, end, order, 0, res)
    /\ UNCHANGED <<records, besideReports>>

\* generate_blocks_report called when datetime.now() is current_time
BlocksReportCall(start, end, order, current_time) ==
    /\ Fresh
    /\ \E res \in {GenerateBlocksReport(pricingCache, records, start, end,
                                        order, current_time)} :
          report' = [Reported("blocks", start, end, order, 0, res)
                       EXCEPT !.current_time = Some(current_time)]
    /\ UNCHANGED <<records, besideReports>>

-----------------------------------------------------------------------------
(* DataLoader *)

\* JSON values, as json.loads returns them.  A string is either the ISO-8601
\* text of an instant (zone is its offset suffix: "", "Z" or "+00:00") or
\* other text, a string of characters.
JNull == [type |-> "null"]
JNum(n) == [type |-> "num", n |-> n]
JStr(s) == [type |-> "str", form |-> "text", s |-> s]
JIso(ts, zone) == [type |-> "str", form |-> "iso", ts |-> ts, zone |-> zone]
JObj(fields) == [type |-> "obj", fields |-> fields]

\* isinstance(v, dict)
IsDict(v) == v.type = "obj"

\* `f in d` and d[f] for a dict d
Has(d, f) == f \in DOMAIN d.fields
Field(d, f) == d.fields[f]

\* d.get(f, 0)
GetOr0(d, f) == IF Has(d, f) THEN Field(d, f) ELSE JNum(0)

\* bool(v)
Truthy(v) ==
    CASE v.type = "null" -> FALSE
      [] v.type = "num" -> v.n # 0
      [] v.type = "str" -> v.form = "iso" \/ Len(v.s) > 0
      [] v.type = "obj" -> DOMAIN v.fields # {}

\* the lines of a log file: JSON text, text that is not JSON, an empty line,
\* or bytes that do not decode as UTF-8
JsonLine(v) == [text |-> "json", data |-> v]
InvalidLine == [text |-> "invalid"]
BlankLine == [text |-> "blank"]
UndecodableLine == [text |-> "undecodable"]

\* datetime.fromtimestamp(n): a naive datetime
FromTimestamp(n) == Stamp((n - OriginEpoch) \div 60, FALSE)

\* datetime.fromisoformat, after 'Z' is replaced by '+00:00': aware when the
\* text carries an offset
FromIsoFormat(v) ==
    LET zone == IF v.zone = "Z" THEN "+00:00" ELSE v.zone
    IN Stamp(v.ts, zone # "")

\* one round of the loop of _extract_timestamp: the datetime the value
\* gives, or nothing (fromisoformat raised, or the value is neither a string
\* nor a number) and the loop goes on to the next field
TimestampOf(v) ==
    CASE v.type = "str" -> IF v.form = "iso" THEN Some(FromIsoFormat(v)) ELSE None
      [] v.type = "num" -> Some(FromTimestamp(v.n))
      [] OTHER -> None

\* _extract_timestamp
ExtractTimestamp(data) ==
    LET timestamp_fields == <<"timestamp", "created_at", "time">>
        hits == {i \in 1..Len(timestamp_fields) :
                    /\ Has(data, timestamp_fields[i])
                    /\ TimestampOf(Field(data, timestamp_fields[i])) # None}
    IN IF hits = {} THEN None
       ELSE TimestampOf(Field(data, timestamp_fields[SetMin(hits)]))

\* the first of the fields names that d holds with a truthy value
FirstTruthy(d, names) ==
    LET hits == {i \in 1..Len(names) :
                    Has(d, names[i]) /\ Truthy(Field(d, names[i]))}
    IN IF hits = {} THEN None ELSE Some(Field(d, names[SetMin(hits)]))

\* _extract_model (the lines of the model name their model in a string)
ExtractModel(data) ==
    IF /\ Has(data, "message")
       /\ IsDict(Field(data, "message"))
       /\ Has(Field(data, "message"), "model")
       /\ Truthy(Field(Field(data, "message"), "model"))
    THEN Some(Field(Field(data, "message"), "model").s)
    ELSE LET m == FirstTruthy(data, <<"model", "model_name">>)
         IN IF m = None THEN None ELSE Some(m[1].s)

\* int(v): the integer, or an exception for None and for text that is not a
\* number
IntOf(v) ==
    IF v.type = "num" THEN [status |-> "ok", n |-> v.n]
    ELSE [status |-> "raise", n |-> 0]

\* the dict of four counts _extract_tokens builds from four values, or the
\* exception int() raised
TokenDict(i, o, cc, cr) ==
    IF \E v \in {IntOf(i), IntOf(o), IntOf(cc), IntOf(cr)} : v.status # "ok"
    THEN [status |-> "raise"]
    ELSE [status |-> "ok",
          tokens |-> [input_tokens |-> IntOf(i).n,
                      output_tokens |-> IntOf(o).n,
                      cache_creation_tokens |-> IntOf(cc).n,
                      cache_read_tokens |-> IntOf(cr).n]]

\* the value of the first of the fields names that d holds, 0 if it holds
\* none
FirstPresentOr0(d, names) ==
    LET hits == {i \in 1..Len(names) : Has(d, names[i])}
    IN IF hits = {} THEN JNum(0) ELSE Field(d, names[SetMin(hits)])

\* _extract_tokens: a dict of counts, None (status "none"), or an exception
ExtractTokens(data) ==
    IF /\ Has(data, "message")
       /\ IsDict(Field(data, "message"))
       /\ Has(Field(data, "message"), "usage")
       /\ IsDict(Field(Field(data, "message"), "usage"))
    THEN LET usage == Field(Field(data, "message"), "usage")
         IN TokenDict(GetOr0(usage, "input_tokens"),
                      GetOr0(usage, "output_tokens"),
                      GetOr0(usage, "cache_creation_input_tokens"),
                      GetOr0(usage, "cache_read_input_tokens"))
    ELSE IF Has(data, "usage") /\ IsDict(Field(data, "usage"))
    THEN LET usage == Field(data, "usage")
         IN TokenDict(
              FirstPresentOr0(usage, <<"input_tokens", "prompt_tokens">>),
              FirstPresentOr0(usage, <<"output_tokens", "completion_tokens">>),
              FirstPresentOr0(usage, <<"cache_creation_tokens",
                                       "cache_creation_input_tokens">>),
              FirstPresentOr0(usage, <<"cache_read_tokens",
                                       "cache_read_input_tokens">>))
    ELSE IF \E f \in {"input_tokens", "output_tokens", "total_tokens"} :
               Has(data, f)
    THEN TokenDict(GetOr0(data, "input_tokens"),
                   GetOr0(data, "output_tokens"),
                   GetOr0(data, "cache_creation_tokens"),
                   GetOr0(data, "cache_read_tokens"))
    ELSE [status |-> "none"]

Chr_unknown == <<"u", "n", "k", "n", "o", "w", "n">>

\* a working directory, /w/app
Chr_cwd == <<"/", "w", "/", "a", "p", "p">>

\* _extract_session_id (the lines of the model name their session in a
\* string)
ExtractSessionId(data) ==
    LET sid == FirstTruthy(data, <<"sessionId", "session_id",
                                   "conversation_id", "thread_id", "id">>)
    IN IF sid = None THEN Chr_unknown ELSE sid[1].s

\* Path(s).name: the last component of a POSIX path, the characters behind
\* the last "/" that has a component after it; trailing "/" do not count
PathName(s) ==
    LET inName == {i \in 1..Len(s) :
                     /\ s[i] # "/"
                     /\ \A j \in i..Len(s) :
                           s[j] = "/" => \A k \in j..Len(s) : s[k] = "/"}
        idx == Ascending(inName)
    IN [n \in 1..Len(idx) |-> s[idx[n]]]

\* str(Path(s)) of a POSIX path without "." components: a "/" is kept where
\* a component follows it directly, which drops repeated and trailing "/"
PathStr(s) ==
    LET kept == {i \in 1..Len(s) :
                   s[i] = "/" => (i < Len(s) /\ s[i + 1] # "/")}
        idx == Ascending(kept)
    IN IF kept # {} THEN [n \in 1..Len(idx) |-> s[idx[n]]]
       ELSE IF s # <<>> THEN <<"/">>
       ELSE <<".">>

\* str.replace(old, new, count); count = -1 replaces every occurrence
RECURSIVE Replace(_, _, _, _)
Replace(s, old, new, count) ==
    LET hits == {i \in 1..(Len(s) - Len(old) + 1) :
                    SubSeq(s, i, i + Len(old) - 1) = old}
    IN IF count = 0 \/ hits = {} THEN s
       ELSE SubSeq(s, 1, SetMin(hits) - 1) \o new
            \o Replace(SubSeq(s, SetMin(hits) + Len(old), Len(s)), old, new,
                       IF count < 0 THEN count ELSE count - 1)

\* the decimal digits of a natural number
RECURSIVE Digits(_)
Digits(n) ==
    LET digit == <<"0", "1", "2", "3", "4", "5", "6", "7", "8", "9">>
    IN IF n < 10 THEN <<digit[n + 1]>>
       ELSE Digits(n \div 10) \o <<digit[(n % 10) + 1]>>

\* str(v) of a JSON value that is not an object
PyStr(v) ==
    CASE v.type = "str" -> v.s
      [] v.type = "num" -> Digits(v.n)
      [] v.type = "null" -> <<"N", "o", "n", "e">>

\* d.get(f): the value as Python holds it, None for null or a missing key
PyGet(d, f) ==
    IF ~Has(d, f) \/ Field(d, f).type = "null" THEN None
    ELSE IF Field(d, f).type = "str" THEN Some(Field(d, f).s)
    ELSE Some(Field(d, f).n)

\* file_path.parent.name: the log files lie in one directory that Claude
\* Code named after the working directory
ParentDir == <<"w", "-", "a", "p", "p">>
Chr_projects == <<"p", "r", "o", "j", "e", "c", "t", "s">>

\* _extract_project_info: the project id and name, from cwd, then from
\* project, then (when there is no name yet) from the directory the file
\* lies in.  Path(cwd) raises for a cwd that is not a string.
ExtractProjectInfo(data) ==
    IF /\ Has(data, "cwd")
       /\ Truthy(Field(data, "cwd"))
       /\ Field(data, "cwd").type # "str"
    THEN [status |-> "raise", id |-> None, name |-> None]
    ELSE LET fromCwd ==
                 IF Has(data, "cwd") /\ Truthy(Field(data, "cwd"))
                 THEN [id |-> Some(PathStr(Field(data, "cwd").s)),
                       name |-> Some(PathName(Field(data, "cwd").s))]
                 ELSE [id |-> None, name |-> None]
             fromProject ==
                 IF ~Has(data, "project") THEN fromCwd
                 ELSE IF IsDict(Field(data, "project"))
                 THEN [id |-> PyGet(Field(data, "project"), "id"),
                       name |-> PyGet(Field(data, "project"), "name")]
                 ELSE [fromCwd EXCEPT
                          !.id = Some(PyStr(Field(data, "project")))]
             named == fromProject.name # None /\ fromProject.name[1] # <<>>
             inferred ==
                 Replace(Replace(Replace(ParentDir, <<"-", "-">>,
                                         <<":", "\\">>, 1),
                                 <<"-">>, <<" ">>, 1),
                         <<"-">>, <<"/">>, -1)
         IN IF named \/ ParentDir = <<>> \/ ParentDir = Chr_projects
            THEN [status |-> "ok", id |-> fromProject.id,
                  name |-> fromProject.name]
            ELSE [status |-> "ok",
                  id |-> IF fromProject.id # None /\ fromProject.id[1] # <<>>
                         THEN fromProject.id ELSE Some(ParentDir),
                  name |-> Some(inferred)]

\* _parse_usage_record: a record, or None.  Every exception ends in None; a
\* value that is not a dict holds none of the fields, or raises on the first
\* `in`.
ParseUsageRecord(data) ==
    IF ~IsDict(data) THEN None
    ELSE LET timestamp == ExtractTimestamp(data)
             model == ExtractModel(data)
             tokens == ExtractTokens(data)
         IN IF timestamp = None THEN None
            ELSE IF model = None THEN None
            ELSE IF tokens.status # "ok" THEN None
            ELSE CHOOSE made \in
                    {IF project_info.status # "ok" THEN None
                     ELSE Some(InProject(
                             UsageRecord(timestamp[1].ts, timestamp[1].aware,
                                         ExtractSessionId(data), model[1],
                                         tokens.tokens.input_tokens,
                                         tokens.tokens.output_tokens,
                                         tokens.tokens.cache_creation_tokens,
                                         tokens.tokens.cache_read_tokens),
                             project_info.id, project_info.name)) :
                       project_info \in {ExtractProjectInfo(data)}} : TRUE

\* _has_usage_fields: TRUE, FALSE, or an exception ("raise") for a JSON
\* number, on which `in` is not defined
HasUsageFields(data) ==
    IF ~IsDict(data) THEN "raise"
    ELSE IF Has(data, "usage") /\ IsDict(Field(data, "usage"))
    THEN \E f \in {"input_tokens", "output_tokens", "cache_creation_tokens",
                   "cache_read_tokens"} : Has(Field(data, "usage"), f)
    ELSE \E f \in {"usage", "model", "tokens", "input_tokens",
                   "output_tokens", "created_at", "timestamp"} : Has(data, f)

\* the lines of the file the probe looks at
ProbedLines == 3

\* _is_claude_usage_file.  The file is a sequence of lines; denied tells
\* that open() fails.  The text is decoded as it is read, a chunk at a
\* time: a line of the model stands for a chunk of the file, so bytes that
\* do not decode raise when the reader reaches their line.  The probe stops
\* at the first line that decides: undecodable bytes or a JSON value on
\* which _has_usage_fields raises (rejected), or usage fields (accepted).
IsClaudeUsageFile(file, denied) ==
    LET seen == {i \in 1..Len(file) : i <= ProbedLines}
        decides == {i \in seen :
                       \/ file[i].text = "undecodable"
                       \/ /\ file[i].text = "json"
                          /\ HasUsageFields(file[i].data) # FALSE}
    IN /\ ~denied
       /\ decides # {}
       /\ file[SetMin(decides)].text = "json"
       /\ HasUsageFields(file[SetMin(decides)].data) = TRUE

\* _parse_jsonl_file: the records of the lines that give one, in line order;
\* open() failing, or bytes that do not decode met while iterating over the
\* file, raise out of it and the records gathered so far are lost
ParseJsonlFile(file, denied) ==
    LET gives == {i \in 1..Len(file) :
                     /\ file[i].text = "json"
                     /\ ParseUsageRecord(file[i].data) # None}
        idx == Ascending(gives)
    IN IF denied \/ \E i \in 1..Len(file) : file[i].text = "undecodable"
       THEN [status |-> "raise", records |-> <<>>]
       ELSE [status |-> "ok",
             records |-> [n \in 1..Len(idx) |->
                            ParseUsageRecord(file[idx[n]].data)[1]]]

\* discover_data_files: the places in files of the files the probe accepts;
\* nothing if scanning the data directory raises
DiscoverDataFiles(files, denied, scanOk) ==
    IF ~scanOk THEN <<>>
    ELSE Ascending({k \in 1..Len(files) :
                      IsClaudeUsageFile(files[k], k \in denied)})

\* all_records after the loop of load_usage_data over the places found: a
\* file whose parse raises adds nothing
RECURSIVE AllRecords(_, _, _)
AllRecords(files, found, denied) ==
    IF found = <<>> THEN <<>>
    ELSE LET parsed == ParseJsonlFile(files[Head(found)], Head(found) \in denied)
         IN (IF parsed.status = "ok" THEN parsed.records ELSE <<>>)
            \o AllRecords(files, Tail(found), denied)

\* a sort by timestamp that puts records of equal timestamp in the reverse
\* of the order they came in
SortByTimestamp_TiesReversed(recs) ==
    LET rev == [i \in 1..Len(recs) |-> recs[Len(recs) + 1 - i]]
    IN IF \E i, j \in 1..Len(recs) : recs[i].aware # recs[j].aware
       THEN [status |-> "TypeError", records |-> <<>>]
       ELSE [status |-> "ok",
             records |-> SortByKey(rev,
                                   [i \in 1..Len(rev) |-> rev[i].timestamp],
                                   FALSE)]

\* list.sort(key=lambda r: r.timestamp): comparing an aware datetime with a
\* naive one raises TypeError
SortByTimestamp(recs) ==
    IF \E i, j \in 1..Len(recs) : recs[i].aware # recs[j].aware
    THEN [status |-> "TypeError", records |-> <<>>]
    ELSE [status |-> "ok",
          records |-> SortByKey(recs,
                                [i \in 1..Len(recs) |-> recs[i].timestamp],
                                FALSE)]

\* load_usage_data that takes an empty cached list for no cache
LoadUsageData_RescansEmptyCache(cache, force_reload, files, denied, scanOk) ==
    LET sorted == SortByTimestamp(
                    AllRecords(files, DiscoverDataFiles(files, denied, scanOk),
                               denied))
    IN IF cache # None /\ cache # Some(<<>>) /\ ~force_reload
       THEN [status |-> "ok", records |-> cache[1], cache |-> cache,
             scanned |-> FALSE]
       ELSE IF sorted.status # "ok"
       THEN [status |-> sorted.status, records |-> <<>>, cache |-> cache,
             scanned |-> TRUE]
       ELSE [status |-> "ok", records |-> sorted.records,
             cache |-> Some(sorted.records), scanned |-> TRUE]

\* load_usage_data(force_reload), given the loader's cache and the files:
\* what the call returns or raises, the cache it leaves, and whether it
\* scanned
LoadUsageData(cache, force_reload, files, denied, scanOk) ==
    IF cache # None /\ ~force_reload
    THEN [status |-> "ok", records |-> cache[1], cache |-> cache,
          scanned |-> FALSE]
    ELSE LET sorted == SortByTimestamp(
                         AllRecords(files,
                                    DiscoverDataFiles(files, denied, scanOk),
                                    denied))
         IN IF sorted.status # "ok"
            THEN [status |-> sorted.status, records |-> <<>>, cache |-> cache,
                  scanned |-> TRUE]
            ELSE [status |-> "ok", records |-> sorted.records,
                  cache |-> Some(sorted.records), scanned |-> TRUE]

-----------------------------------------------------------------------------
(* DataLoader: the calls *)

\* load_usage_data has not been called
NoLoad == [status |-> "none", records |-> <<>>, scanned |-> FALSE,
           force_reload |-> FALSE, denied |-> {}, scanOk |-> TRUE]

\* no loader is in play
NoLoader ==
    /\ logFiles = <<>>
    /\ usageCache = None
    /\ loadResult = NoLoad

\* no configuration manager is in play
NoManager == [file |-> "absent", backups |-> <<>>, pc |-> "idle", depth |-> 0,
              outcome |-> "none"]
NoConfig == config = NoManager

\* no window is open
NoApplication == [threads |-> <<>>, main |-> "idle", handler |-> "none"]
NoGui == gui = NoApplication

\* the lines found in the log files
LogLines ==
    <<\* a Claude Code line: UTC timestamp, message.model, message.usage
      JsonLine(JObj([timestamp |-> JIso(At(0, 6, 10), "Z"),
                     sessionId |-> JStr(Session1),
                     message |-> JObj([model |-> JStr(SonnetKey),
                                       usage |-> JObj([input_tokens |-> JNum(1000),
                                                       output_tokens |-> JNum(500)])])])),
      \* a timestamp without offset, a usage object
      JsonLine(JObj([timestamp |-> JIso(At(0, 6, 10), ""),
                     model |-> JStr(OpusKey),
                     session_id |-> JStr(Session2),
                     usage |-> JObj([prompt_tokens |-> JNum(1),
                                     completion_tokens |-> JNum(2)])])),
      \* epoch seconds, token counts at the top level
      JsonLine(JObj([time |-> JNum(OriginEpoch + 60 * At(0, 5, 0)),
                     model_name |-> JStr(HaikuKey),
                     input_tokens |-> JNum(10),
                     output_tokens |-> JNum(20)])),
      \* a timestamp and a model, no token counts
      JsonLine(JObj([timestamp |-> JIso(At(1, 0, 0), ""),
                     model |-> JStr(OpusKey)])),
      \* a timestamp and token counts, no model
      JsonLine(JObj([timestamp |-> JIso(At(1, 0, 0), ""),
                     input_tokens |-> JNum(5)])),
      \* a model and token counts, a timestamp that does not parse
      JsonLine(JObj([timestamp |-> JStr(Chr_unknown),
                     model |-> JStr(SonnetKey),
                     input_tokens |-> JNum(7)])),
      \* created_at without offset, a usage object, a working directory
      JsonLine(JObj([created_at |-> JIso(At(0, 6, 10), ""),
                     model |-> JStr(HaikuKey),
                     cwd |-> JStr(Chr_cwd),
                     usage |-> JObj([input_tokens |-> JNum(3)])])),
      InvalidLine,
      UndecodableLine>>

\* lines that differ in their timestamp fields and in their token counts;
\* each names a model and carries token counts
FieldLines ==
    <<\* timestamp and created_at, both ISO-8601
      JsonLine(JObj([timestamp |-> JIso(At(0, 6, 10), ""),
                     created_at |-> JIso(At(1, 0, 0), ""),
                     model |-> JStr(SonnetKey),
                     input_tokens |-> JNum(1)])),
      \* a timestamp that does not parse, a created_at that does
      JsonLine(JObj([timestamp |-> JStr(Chr_unknown),
                     created_at |-> JIso(At(1, 0, 0), ""),
                     model |-> JStr(OpusKey),
                     input_tokens |-> JNum(2)])),
      \* a null timestamp, time in epoch seconds
      JsonLine(JObj([timestamp |-> JNull,
                     time |-> JNum(OriginEpoch + 60 * At(0, 5, 0)),
                     model |-> JStr(HaikuKey),
                     input_tokens |-> JNum(3)])),
      \* created_at alone, and it does not parse
      JsonLine(JObj([created_at |-> JStr(Chr_unknown),
                     model |-> JStr(SonnetKey),
                     input_tokens |-> JNum(4)])),
      \* a negative token count in a usage object
      JsonLine(JObj([timestamp |-> JIso(At(2, 0, 0), ""),
                     model |-> JStr(SonnetKey),
                     usage |-> JObj([input_tokens |-> JNum(-5),
                                     output_tokens |-> JNum(2)])])),
      \* time alone, token counts at the top level
      JsonLine(JObj([time |-> JNum(OriginEpoch + 60 * At(0, 9, 0)),
                     model |-> JStr(OpusKey),
                     output_tokens |-> JNum(7),
                     cache_read_tokens |-> JNum(8)]))>>

\* a line is written at the end of log file k, or of a new file
AppendLine(k, line) ==
    /\ SumSeq([f \in 1..Len(logFiles) |-> Len(logFiles[f])]) < MaxLines
    /\ k <= MaxFiles
    /\ logFiles' = IF k <= Len(logFiles)
                   THEN [logFiles EXCEPT ![k] = Append(@, line)]
                   ELSE Append(logFiles, <<line>>)
    /\ loadResult' = NoLoad
    /\ UNCHANGED <<usageCache, besideLoader>>

\* load_usage_data(force_reload); open() fails on the files at the places
\* in denied, and scanning the directory fails unless scanOk.  loadResult
\* keeps how the call ended and, when it scanned, what the scan met.
LoadUsageDataCall(force_reload, denied, scanOk) ==
    /\ \E res \in {LoadUsageData(usageCache, force_reload, logFiles, denied,
                                 scanOk)} :
          /\ usageCache' = res.cache
          /\ loadResult' = [status |-> res.status, records |-> res.records,
                            scanned |-> res.scanned,
                            force_reload |-> force_reload,
                            denied |-> IF res.scanned THEN denied ELSE {},
                            scanOk |-> res.scanned => scanOk]
    /\ UNCHANGED <<logFiles, besideLoader>>

\* clear_cache
ClearCache ==
    /\ usageCache' = None
    /\ loadResult' = NoLoad
    /\ UNCHANGED <<logFiles, besideLoader>>

-----------------------------------------------------------------------------
(* MainApplication *)

\* the background threads one window starts in the model
MaxThreads == 2

\* the lines the log files gain while the window is open
GuiLines == SubSeq(LogLines, 1, 3)

\* load_usage_data() up to its test of the cache: the caller returns with
\* the cached list or goes on to scan the files
EnterLoad(cache, returned) == IF cache # None THEN returned ELSE "scanning"

\* load_usage_data() from the scan to its return: the files are read and
\* sorted and the list is stored in the cache, unless the sort raises
FinishLoad(cache, files) ==
    Once(LoadUsageData(None, FALSE, files, {}, TRUE),
         LAMBDA res : IF res.status = "ok"
                      THEN [raised |-> FALSE, cache |-> res.cache]
                      ELSE [raised |-> TRUE, cache |-> cache])

\* MainApplication.__init__ has returned: _load_initial_data has started the
\* first background thread, which has not yet called the loader
ApplicationStarted ==
    gui = [threads |-> <<"started">>, main |-> "idle", handler |-> "init"]

\* a background thread calls load_usage_data()
BackgroundEnterLoad(t) ==
    /\ gui.threads[t] = "started"
    /\ gui' = [gui EXCEPT !.threads[t] = EnterLoad(usageCache, "loaded")]
    /\ UNCHANGED <<pricingVars, usageCache, besideGui>>

\* the scan of a background thread ends: root.after(0, _on_data_loaded) or,
\* on an exception, root.after(0, _on_data_load_error)
BackgroundFinishLoad(t) ==
    /\ gui.threads[t] = "scanning"
    /\ \E res \in {FinishLoad(usageCache, logFiles)} :
          /\ usageCache' = res.cache
          /\ gui' = [gui EXCEPT !.threads[t] =
                                   IF res.raised THEN "failed" ELSE "loaded"]
    /\ UNCHANGED <<pricingVars, besideGui>>

\* _generate_current_report on the main thread, from handler: it calls
\* load_usage_data() and builds the report from what that returns
GenerateCurrentReport(handler) ==
    [gui EXCEPT !.main = EnterLoad(usageCache, "idle"), !.handler = handler]

\* the main loop runs _on_data_loaded for a thread
OnDataLoaded(t) ==
    /\ gui.main = "idle"
    /\ gui.threads[t] = "loaded"
    /\ gui' = [GenerateCurrentReport("on_data_loaded")
                 EXCEPT !.threads[t] = "done"]
    /\ UNCHANGED <<pricingVars, usageCache, besideGui>>

\* the main loop runs _on_data_load_error for a thread
OnDataLoadError(t) ==
    /\ gui.main = "idle"
    /\ gui.threads[t] = "failed"
    /\ gui' = [gui EXCEPT !.threads[t] = "done",
                          !.handler = "on_data_load_error"]
    /\ UNCHANGED <<pricingVars, usageCache, besideGui>>

\* the handlers that only regenerate the report
ReportHandlers ==
    {"on_report_type_changed", "apply_filters", "clear_filters",
     "switch_report"}

\* _on_report_type_changed, _apply_filters, _clear_filters, _switch_report
ReportHandler(handler) ==
    /\ gui.main = "idle"
    /\ gui' = GenerateCurrentReport(handler)
    /\ UNCHANGED <<pricingVars, usageCache, besideGui>>

\* the scan the main thread runs inside _generate_current_report ends; an
\* exception is caught there and shown
MainFinishLoad ==
    /\ gui.main = "scanning"
    /\ \E res \in {FinishLoad(usageCache, logFiles)} :
          /\ usageCache' = res.cache
          /\ gui' = [gui EXCEPT !.main = "idle"]
    /\ UNCHANGED <<pricingVars, besideGui>>

\* _refresh_data: clear_cache(), then _load_initial_data starts a thread
RefreshData ==
    /\ gui.main = "idle"
    /\ Len(gui.threads) < MaxThreads
    /\ usageCache' = None
    /\ gui' = [gui EXCEPT !.threads = Append(@, "started"),
                          !.handler = "refresh_data"]
    /\ UNCHANGED <<pricingVars, besideGui>>

\* _update_pricing: update_pricing(force=True) and, when that succeeds,
\* _generate_current_report
UpdatePricingHandler(out, saveOk) ==
    /\ gui.main = "idle"
    /\ \E u \in {UpdatePricing(offline, TRUE, pricingCache, lastPricingUpdate,
                               cacheFile, now, out, currency, saveOk)} :
          /\ pricingCache' = u.cache
          /\ lastPricingUpdate' = u.watermark
          /\ cacheFile' = u.file
          /\ last' = [op |-> "update", force |-> TRUE, at |-> now,
                      wm |-> lastPricingUpdate, fetched |-> u.fetched,
                      outcome |-> IF u.fetched THEN out.kind ELSE "none",
                      ret |-> Some(u.ret)]
          /\ gui' = IF u.ret THEN GenerateCurrentReport("update_pricing")
                    ELSE [gui EXCEPT !.handler = "update_pricing"]
    /\ costCall' = None
    /\ UNCHANGED <<phase, offline, currency, now, loaded, usageCache,
                   besideGui>>

\* a log file gains a line while the window is open
LogWritten(k, line) ==
    /\ SumSeq([f \in 1..Len(logFiles) |-> Len(logFiles[f])]) < MaxLines
    /\ k <= MaxFiles
    /\ logFiles' = IF k <= Len(logFiles)
                   THEN [logFiles EXCEPT ![k] = Append(@, line)]
                   ELSE Append(logFiles, <<line>>)
    /\ UNCHANGED <<pricingVars, reportVars, usageCache, loadResult, guiVars,
                   configVars>>

-----------------------------------------------------------------------------
(* ConfigManager *)

\* the backups found beside the configuration file in the model
MaxBackups == 2

\* the nested load_config calls the interpreter's stack has room for
\* (sys.getrecursionlimit() frames in all)
RecursionLimit == 3

\* ConfigManager.MAX_BACKUP_FILES
MAX_BACKUP_FILES == 5

\* what a file holds: a configuration that loads, JSON that fails validation,
\* or text json.load rejects
Contents == {"valid", "invalid", "unparsable"}

\* _cleanup_old_backups: the most recent backups are kept (backups are in
\* the order of their modification times, the latest last)
CleanupOldBackups(backups) ==
    IF Len(backups) > MAX_BACKUP_FILES
    THEN SubSeq(backups, Len(backups) - MAX_BACKUP_FILES + 1, Len(backups))
    ELSE backups

\* _create_backup
CreateBackup(file, backups) ==
    IF file = "absent" THEN backups
    ELSE CleanupOldBackups(Append(backups, file))

\* self._config = self._create_default_config(); self.save_config(): the
\* file that is there is backed up, then the default configuration is written
SaveDefault(file, backups) ==
    [file |-> "valid", backups |-> CreateBackup(file, backups),
     outcome |-> "default"]

\* _recover_from_backup: the most recent backup is copied over the file;
\* False when there is no backup or the copy fails
RecoverFromBackup(file, backups, copyOk) ==
    IF backups = <<>> \/ ~copyOk
    THEN [ok |-> FALSE, file |-> file]
    ELSE [ok |-> TRUE, file |-> backups[Len(backups)]]

\* ConfigManager.__init__ calls load_config
LoadConfigCall ==
    /\ config.pc = "idle"
    /\ config' = [config EXCEPT !.pc = "load", !.depth = 1]
    /\ UNCHANGED <<pricingVars, reportVars, loaderVars, guiVars>>

\* One load_config call, from its entry to its return or to the call of
\* itself it makes after a recovery.  When the stack has no room for that
\* call the RecursionError either comes up inside _recover_from_backup and
\* _create_backup, which catch it (caught), or in the handler of the parse
\* error, and then it leaves every load_config call that is open.
LoadConfig(copyOk, caught) ==
    /\ config.pc = "load"
    /\ config' =
         IF config.file = "absent"
         THEN [config EXCEPT !.pc = "done", !.file = "valid",
                             !.outcome = "default"]
         ELSE IF config.file = "valid"
         THEN [config EXCEPT !.pc = "done", !.outcome = "loaded"]
         ELSE IF config.file = "invalid"
         THEN [config EXCEPT !.pc = "done",
                             !.outcome = "ConfigValidationError"]
         ELSE IF config.depth >= RecursionLimit
         THEN IF caught
              THEN [config EXCEPT !.pc = "done", !.file = "valid",
                                  !.outcome = "default"]
              ELSE [config EXCEPT !.pc = "done",
                                  !.outcome = "RecursionError"]
         ELSE LET r == RecoverFromBackup(config.file, config.backups, copyOk)
                  d == SaveDefault(config.file, config.backups)
              IN IF r.ok
                 THEN [config EXCEPT !.file = r.file, !.depth = @ + 1]
                 ELSE [config EXCEPT !.pc = "done", !.file = d.file,
                                     !.backups = d.backups,
                                     !.outcome = d.outcome]
    /\ UNCHANGED <<pricingVars, reportVars, loaderVars, guiVars>>

\* the records of three sessions on two days, with and without a project
SessionRecords ==
    {InProject(UsageRecord(At(0, 6, 10), FALSE, Session1, SonnetKey,
                           1000, 500, 0, 0),
               Some(Chr_cwd), Some(PathName(Chr_cwd))),
     UsageRecord(At(0, 7, 45), FALSE, Session1, Gpt4, 10, 20, 30, 40),
     UsageRecord(At(0, 11, 2), FALSE, Session2, OpusKey, 1, 2, 3, 4),
     InProject(UsageRecord(At(0, 6, 10), FALSE, Session2, HaikuKey,
                           5, 5, 5, 5),
               Some(ParentDir), None),
     UsageRecord(At(0, 20, 30), FALSE, Session3, SonnetKey, 7, 0, 0, 0),
     UsageRecord(At(1, 0, 30), FALSE, Session3, SonnetKey, 0, 9, 0, 0),
     UsageRecord(At(0, 6, 10), TRUE, Session1, SonnetKey, 1, 1, 1, 1)}

\* the start_date and end_date arguments of the session and blocks reports
SessionStarts == {None, Some(Stamp(At(0, 7, 0), FALSE))}
SessionEnds == {None, Some(Stamp(At(0, 20, 30), FALSE))}

\* datetime.now() at the blocks report
BlockNows == {At(0, 7, 0), At(1, 0, 30)}

\* records late in the evening and just after the midnight that follows, on
\* two pairs of days
BlockRecords ==
    {UsageRecord(At(0, 6, 10), FALSE, Session1, SonnetKey, 1000, 500, 0, 0),
     UsageRecord(At(0, 20, 30), FALSE, Session3, SonnetKey, 7, 0, 0, 0),
     UsageRecord(At(1, 0, 30), FALSE, Session3, SonnetKey, 0, 9, 0, 0),
     UsageRecord(At(2, 20, 30), FALSE, Session2, OpusKey, 1, 2, 3, 4),
     UsageRecord(At(3, 0, 30), FALSE, Session2, OpusKey, 4, 3, 2, 1)}

-----------------------------------------------------------------------------
(* Specifications *)

\* The calculator's refresh life cycle, the clock running: one draw of the
\* fetched prices, every way a fetch and a save can end
LifeCycleOutcomes ==
    {o \in FetchOutcomes : o.kind = "ok" => o.vs = <<19, 21, 20>>}

NextPricing ==
    \/ \E out \in LifeCycleOutcomes, saveOk \in BOOLEAN : Construct(out, saveOk)
    \/ \E force \in BOOLEAN, out \in LifeCycleOutcomes, saveOk \in BOOLEAN :
          UpdatePricingCall(force, out, saveOk)
    \/ GetPricingInfo
    \/ \E t \in ClockInstants : Advance(t)

InitPricing == InitCalculator(CacheFiles, {"USD"}) /\ NoReports /\ NoLoader
    /\ NoGui /\ NoConfig

SpecPricing ==
    /\ InitPricing
    /\ [][NextPricing]_vars

\* Pricing records against every table the calculator can hold; the calls
\* follow each other without the clock moving
NextCost ==
    \/ \E out \in FetchOutcomes : Construct(out, TRUE)
    \/ \E force \in BOOLEAN, out \in FetchOutcomes :
          UpdatePricingCall(force, out, TRUE)
    \/ \E r \in CostRecords : CalculateCostCall(r)

InitCost == InitCalculator(CostCacheFiles, Currencies) /\ NoReports /\ NoLoader
    /\ NoGui /\ NoConfig

SpecCost ==
    /\ InitCost
    /\ [][NextCost]_vars


\* Reports over every record list, from a calculator holding the built-in
\* table
NextReports ==
    \/ \E r \in ReportRecords : AppendRecord(r)
    \/ \E start \in StartBounds, end \in EndBounds, order \in Orders :
          DailyReportCall(start, end, order)
    \/ \E start \in StartBounds, end \in EndBounds, order \in Orders :
          MonthlyReportCall(start, end, order)
    \/ \E start \in StartBounds, end \in EndBounds, wsd \in WeekStartDays,
          order \in Orders :
          WeeklyReportCall(start, end, wsd, order)

InitReports == DefaultCalculator /\ NoReports /\ NoLoader
    /\ NoGui /\ NoConfig

SpecReports ==
    /\ InitReports
    /\ [][NextReports]_vars

\* The five reports over the records of sessions
NextSessions ==
    \/ \E r \in SessionRecords : AppendRecord(r)
    \/ \E start \in SessionStarts, end \in SessionEnds, order \in Orders :
          SessionReportCall(start, end, order)
    \/ \E start \in SessionStarts, end \in SessionEnds, order \in Orders,
          current_time \in BlockNows :
          BlocksReportCall(start, end, order, current_time)
    \/ \E order \in Orders : DailyReportCall(None, None, order)
    \/ \E order \in Orders : MonthlyReportCall(None, None, order)
    \/ \E wsd \in WeekStartDays, order \in Orders :
          WeeklyReportCall(None, None, wsd, order)

InitSessions == DefaultCalculator /\ NoReports /\ NoLoader
    /\ NoGui /\ NoConfig

SpecSessions ==
    /\ InitSessions
    /\ [][NextSessions]_vars

\* arguments a caller can pass, among them an end before the start and
\* week_start_day values that name no weekday
ContractStarts == {None, Some(Stamp(At(7, 0, 0), FALSE))}
ContractEnds == {None, Some(Stamp(At(0, 7, 0), FALSE))}
ContractWeekStartDays == {-1, 0, 6, 7}

\* The five reports called with arguments of every kind
NextContract ==
    \/ \E r \in ReportRecords : AppendRecord(r)
    \/ \E start \in ContractStarts, end \in ContractEnds :
          DailyReportCall(start, end, DefaultOrder)
    \/ \E start \in ContractStarts, end \in ContractEnds :
          MonthlyReportCall(start, end, DefaultOrder)
    \/ \E start \in ContractStarts, end \in ContractEnds :
          SessionReportCall(start, end, DefaultOrder)
    \/ \E start \in ContractStarts, end \in ContractEnds :
          BlocksReportCall(start, end, DefaultOrder, At(0, 7, 0))
    \/ \E start \in ContractStarts, end \in ContractEnds,
          wsd \in ContractWeekStartDays :
          WeeklyReportCall(start, end, wsd, DefaultOrder)

InitContract == DefaultCalculator /\ NoReports /\ NoLoader
    /\ NoGui /\ NoConfig

SpecContract ==
    /\ InitContract
    /\ [][NextContract]_vars

\* Loading the log files as they grow
NextLoader ==
    \/ \E k \in 1..(Len(logFiles) + 1), n \in 1..Len(LogLines) :
          AppendLine(k, LogLines[n])
    \/ \E force_reload \in BOOLEAN, denied \in SUBSET (1..Len(logFiles)),
          scanOk \in BOOLEAN :
          LoadUsageDataCall(force_reload, denied, scanOk)
    \/ ClearCache

InitLoader == DefaultCalculator /\ NoReports /\ NoLoader
    /\ NoGui /\ NoConfig

\* Loading readable files whose lines differ in their fields
NextFields ==
    \/ \E k \in 1..(Len(logFiles) + 1), n \in 1..Len(FieldLines) :
          AppendLine(k, FieldLines[n])
    \/ \E force_reload \in BOOLEAN : LoadUsageDataCall(force_reload, {}, TRUE)

InitFields == DefaultCalculator /\ NoReports /\ NoLoader
    /\ NoGui /\ NoConfig

SpecFields ==
    /\ InitFields
    /\ [][NextFields]_vars

\* Blocks reports over records around midnight
NextBlocks ==
    \/ \E r \in BlockRecords : AppendRecord(r)
    \/ \E start \in SessionStarts, end \in SessionEnds, order \in Orders,
          current_time \in BlockNows :
          BlocksReportCall(start, end, order, current_time)

InitBlocks == DefaultCalculator /\ NoReports /\ NoLoader
    /\ NoGui /\ NoConfig

SpecBlocks ==
    /\ InitBlocks
    /\ [][NextBlocks]_vars

\* The window open: its background threads, the handlers of its main
\* thread, and the log files growing meanwhile
NextGui ==
    \/ \E t \in 1..Len(gui.threads) : BackgroundEnterLoad(t)
    \/ \E t \in 1..Len(gui.threads) : BackgroundFinishLoad(t)
    \/ \E t \in 1..Len(gui.threads) : OnDataLoaded(t)
    \/ \E t \in 1..Len(gui.threads) : OnDataLoadError(t)
    \/ \E handler \in ReportHandlers : ReportHandler(handler)
    \/ MainFinishLoad
    \/ RefreshData
    \/ \E out \in LifeCycleOutcomes : UpdatePricingHandler(out, TRUE)
    \/ \E k \in 1..(Len(logFiles) + 1), n \in 1..Len(GuiLines) :
          LogWritten(k, GuiLines[n])

\* the calculator the window built, online or offline
InitGui ==
    /\ phase = "ready"
    /\ offline \in BOOLEAN
    /\ currency = "USD"
    /\ cacheFile = NoFile
    /\ pricingCache = DEFAULT_PRICING
    /\ lastPricingUpdate = None
    /\ now = StartNow
    /\ loaded = Some(LoadPricingCache(NoFile))
    /\ last = Idle
    /\ costCall = None
    /\ NoReports
    /\ NoLoader
    /\ ApplicationStarted
    /\ NoConfig

SpecGui ==
    /\ InitGui
    /\ [][NextGui]_vars

\* A configuration manager constructed over every state of the file and of
\* its backups
NextConfig ==
    \/ LoadConfigCall
    \/ \E copyOk \in BOOLEAN, caught \in BOOLEAN : LoadConfig(copyOk, caught)

\* the directory as the constructor finds it
InitConfig ==
    /\ DefaultCalculator
    /\ NoReports
    /\ NoLoader
    /\ NoGui
    /\ \E file \in Contents \cup {"absent"}, n \in 0..MaxBackups :
          \E backups \in [1..n -> Contents] :
             config = [NoManager EXCEPT !.file = file, !.backups = backups]

SpecConfig ==
    /\ InitConfig
    /\ [][NextConfig]_vars

\* load_config runs on one thread with nothing to wait for: a step that can
\* be taken is taken
SpecConfigFair ==
    /\ SpecConfig
    /\ WF_vars(NextConfig)

SpecLoader ==
    /\ InitLoader
    /\ [][NextLoader]_vars

-----------------------------------------------------------------------------
(* Properties of the cost calculator *)

\* the watermark wm is older than the max age at time t
OlderThanMaxAge(wm, t) == wm # None /\ t - wm[1] > MaxAgeDays * TicksPerDay

\* the cache counts as stale at t: never refreshed, or refreshed too long ago
StaleAt(wm, t) == wm = None \/ OlderThanMaxAge(wm, t)

\* k is a cached key that contains the name n or is contained in it
KeyMatches(k, n) == IsInfix(n, k) \/ IsInfix(k, n)

\* the built-in defaults of the families the lower-cased name n names
NamedFamilyDefaults(n) ==
    {Get(DEFAULT_PRICING, f[2]) :
        f \in {f \in {<<Chr_opus, OpusKey>>, <<Chr_sonnet, SonnetKey>>,
                      <<Chr_haiku, HaikuKey>>} : IsInfix(f[1], Lower(n))}}

\* C2: for a record whose model resolves to a pricing entry, calculate_cost
\* returns for each bucket tokens/1000 times that bucket's rate, their sum as
\* the total, and the currency of the resolved entry; 1000 input and 500
\* output tokens at 3 and 15 dollars per 1k cost 10.5 dollars.
C2_CostIsTokensTimesRate ==
    costCall # None =>
        LET r == costCall[1].record
            p == costCall[1].pricing
            c == costCall[1].result
        IN p # None =>
            /\ c # None
            /\ c[1].input_cost = r.input_tokens * p[1].input_price_per_1k
            /\ c[1].output_cost = r.output_tokens * p[1].output_price_per_1k
            /\ c[1].cache_creation_cost
                 = r.cache_creation_tokens * p[1].cache_creation_price_per_1k
            /\ c[1].cache_read_cost
                 = r.cache_read_tokens * p[1].cache_read_price_per_1k
            /\ c[1].total_cost = c[1].input_cost + c[1].output_cost
                                 + c[1].cache_creation_cost + c[1].cache_read_cost
            /\ c[1].currency = p[1].currency
            /\ c[1].model = r.model
            /\ ( /\ r.input_tokens = 1000 /\ r.output_tokens = 500
                 /\ r.cache_creation_tokens = 0 /\ r.cache_read_tokens = 0
                 /\ p[1].input_price_per_1k * PerK = 3 * UnitsPerDollar
                 /\ p[1].output_price_per_1k * PerK = 15 * UnitsPerDollar )
               => 2 * c[1].total_cost = 21 * UnitsPerDollar

\* a calculator configured for EUR priced 1000 + 500 Sonnet tokens from the
\* built-in USD entry: 10.5 dollars, in USD
C2_Witness ==
    /\ costCall # None
    /\ currency = "EUR"
    /\ costCall[1].record.model = SonnetKey
    /\ costCall[1].record.input_tokens = 1000
    /\ costCall[1].result # None
    /\ costCall[1].result[1].currency = "USD"
    /\ 2 * costCall[1].result[1].total_cost = 21 * UnitsPerDollar

\* C4: get_model_pricing returns the entry of the name when the name is a
\* key of the table; otherwise the entry of a cached key that contains the
\* name or is contained in it; otherwise the built-in default of a family
\* the lower-cased name names; otherwise nothing, and then calculate_cost
\* returns nothing (and only then).
C4_ResolutionOrder ==
    costCall # None =>
        LET n == costCall[1].record.model
            p == costCall[1].pricing
            c == costCall[1].result
            partial == {k \in Keys(pricingCache) : KeyMatches(k, n)}
        IN /\ n \in Keys(pricingCache) => p = Some(Get(pricingCache, n))
           /\ (n \notin Keys(pricingCache) /\ partial # {})
                => \E k \in partial : p = Some(Get(pricingCache, k))
           /\ (n \notin Keys(pricingCache) /\ partial = {}
                 /\ NamedFamilyDefaults(n) # {})
                => \E d \in NamedFamilyDefaults(n) : p = Some(d)
           /\ (n \notin Keys(pricingCache) /\ partial = {}
                 /\ NamedFamilyDefaults(n) = {})
                => p = None
           /\ (p = None) <=> (c = None)

\* "claude-opus-4" was priced by the family fallback from the built-in Opus
\* entry while the table held a refreshed, different Opus entry
C4_Witness ==
    /\ costCall # None
    /\ costCall[1].record.model = Opus4
    /\ costCall[1].pricing = Some(Get(DEFAULT_PRICING, OpusKey))
    /\ OpusKey \in Keys(pricingCache)
    /\ Get(pricingCache, OpusKey) # Get(DEFAULT_PRICING, OpusKey)

\* C5: an offline calculator never refreshes: no call fetches, every
\* update_pricing call returns False, and the table and the watermark stay
\* the ones loaded at construction.
C5_OfflineNeverRefreshes ==
    (offline /\ phase = "ready") =>
        /\ ~last.fetched
        /\ last.op = "update" => last.ret = Some(FALSE)
        /\ pricingCache = loaded[1].cache
        /\ lastPricingUpdate = loaded[1].watermark

\* an offline calculator whose cache was stale was asked for a forced update
C5_Witness ==
    /\ offline
    /\ last.op = "update"
    /\ last.force
    /\ StaleAt(last.wm, last.at)
    /\ last.ret = Some(FALSE)

\* C6: a refresh whose fetch fails (returns nothing, or raises) returns False
\* and leaves the table and the watermark as they were before the call.
C6_FailedFetchKeepsPricing ==
    [][ (last'.fetched /\ last'.outcome \in {"none", "raise"}) =>
            /\ last'.ret = Some(FALSE)
            /\ lastPricingUpdate' = last'.wm
            /\ last'.op = "update" =>
                  /\ pricingCache' = pricingCache
                  /\ lastPricingUpdate' = lastPricingUpdate
            /\ last'.op = "init" =>
                  /\ pricingCache' = loaded'[1].cache
                  /\ lastPricingUpdate' = loaded'[1].watermark ]_vars

\* a forced update whose fetch raised left a refreshed table in place
C6_Witness ==
    /\ last.op = "update"
    /\ last.fetched
    /\ last.outcome = "raise"
    /\ last.ret = Some(FALSE)
    /\ pricingCache # DEFAULT_PRICING
    /\ lastPricingUpdate # None

\* C7: online, a fetch is attempted exactly when the call is forced or the
\* cache is stale; an unforced update_pricing on a fresh cache fetches
\* nothing, changes nothing and returns True.
C7_FetchIffForcedOrStale ==
    [][ (~offline' /\ last'.op \in {"init", "update"}) =>
            /\ last'.fetched <=> (last'.force \/ StaleAt(last'.wm, last'.at))
            /\ (last'.op = "update" /\ ~last'.force
                  /\ ~StaleAt(last'.wm, last'.at)) =>
                  /\ last'.ret = Some(TRUE)
                  /\ pricingCache' = pricingCache
                  /\ lastPricingUpdate' = lastPricingUpdate
                  /\ cacheFile' = cacheFile ]_vars

\* online, a forced update fetched although the cache was fresh
C7_Witness ==
    /\ ~offline
    /\ last.op = "update"
    /\ last.force
    /\ ~StaleAt(last.wm, last.at)
    /\ last.fetched

\* C8: a cache with a watermark is reported stale exactly when the watermark
\* is older than 7 days (8 days: stale; 6 days: not); a cache that was never
\* refreshed is reported stale; after a successful refresh the watermark is
\* the current time and the cache is not stale.
C8_StaleIffOlderThanMaxAge ==
    /\ (last.op = "info" /\ last.wm # None) =>
          /\ last.ret = Some(OlderThanMaxAge(last.wm, last.at))
          /\ last.at - last.wm[1] = 8 * TicksPerDay => last.ret = Some(TRUE)
          /\ last.at - last.wm[1] = 6 * TicksPerDay => last.ret = Some(FALSE)
    /\ (last.op = "info" /\ last.wm = None) => last.ret = Some(TRUE)
    /\ (last.fetched /\ last.ret = Some(TRUE)) =>
          /\ lastPricingUpdate = Some(now)
          /\ ~OlderThanMaxAge(lastPricingUpdate, now)
    /\ (last.op = "info" /\ last.wm = Some(last.at)) => last.ret = Some(FALSE)

\* get_pricing_info reported a watermark 8 days old as stale
C8_Witness ==
    /\ last.op = "info"
    /\ last.wm # None
    /\ last.at - last.wm[1] = 8 * TicksPerDay
    /\ last.ret = Some(TRUE)

-----------------------------------------------------------------------------
(* Properties of the report generators *)

\* the records r with start <= r.timestamp <= end, an absent bound leaving
\* that side open
InRange(recs, start, end) ==
    SelectSeq(recs, LAMBDA r :
        /\ start # None => r.timestamp >= start[1].ts
        /\ end # None => r.timestamp <= end[1].ts)

\* the records in the range of the report made last
ReportedRange == InRange(records, report.start, report.end)

\* a calendar report was returned
CalendarReturned ==
    /\ report.kind \in {"daily", "weekly", "monthly"}
    /\ report.status = "ok"

\* the sum of field f over the entries of the report made last
OverEntries(f) ==
    SumSeq([n \in 1..Len(report.entries) |-> report.entries[n][f]])

\* C1: whatever the record list and the optional start and end, a daily,
\* weekly or monthly report that is returned preserves tokens: total_tokens
\* summed over its entries is total_tokens summed over the records in the
\* range, and the entries' record counts add up to the number of those
\* records (each is counted in exactly one entry).
C1_ReportsPreserveTokens ==
    CalendarReturned =>
        /\ OverEntries("total_tokens") =
              SumSeq([i \in 1..Len(ReportedRange) |->
                        TotalTokens(ReportedRange[i])])
        /\ OverEntries("record_count") = Len(ReportedRange)

\* a weekly report of two weeks or more, a record left out by the range, and
\* a week holding two records
C1_Witness ==
    /\ report.kind = "weekly"
    /\ report.status = "ok"
    /\ report.start # None
    /\ Len(report.entries) >= 2
    /\ Len(ReportedRange) < Len(records)
    /\ OverEntries("total_tokens") > 0

\* the model of r resolves to no pricing
Unpriced(r) == GetModelPricing(pricingCache, r.model) = None

\* tokens times the resolved rate, bucket by bucket; nothing for a record
\* whose model resolves to no pricing
PricedCost(r) ==
    LET p == GetModelPricing(pricingCache, r.model)
    IN IF p = None THEN 0
       ELSE r.input_tokens * p[1].input_price_per_1k
            + r.output_tokens * p[1].output_price_per_1k
            + r.cache_creation_tokens * p[1].cache_creation_price_per_1k
            + r.cache_read_tokens * p[1].cache_read_price_per_1k

\* the records of the range that fall on the day of daily entry e
DayRecords(e) ==
    SelectSeq(ReportedRange,
              LAMBDA r : DateOf(r.timestamp) * MinutesPerDay = e.date)

\* C3: in a daily report an entry counts every record of its day, priced or
\* not, in total_tokens and record_count; its total_cost is the cost of the
\* priced records only; and a record whose model resolves to no pricing adds
\* nothing to its model's cost in the entry's breakdown and gives its model
\* no entry in the calculator's cost breakdown.
C3_UnpricedCountedNotCosted ==
    (report.kind = "daily" /\ report.status = "ok") =>
        \A n \in 1..Len(report.entries) :
            LET e == report.entries[n]
                day == DayRecords(e)
            IN /\ e.total_tokens =
                     SumSeq([i \in 1..Len(day) |-> TotalTokens(day[i])])
               /\ e.record_count = Len(day)
               /\ e.total_cost =
                     SumSeq([i \in 1..Len(day) |-> PricedCost(day[i])])
               /\ \A i \in 1..Len(day) :
                     Unpriced(day[i]) =>
                        /\ e.model_breakdown[day[i].model].cost = 0
                        /\ day[i].model \notin DOMAIN
                              CalculateTotalCost(pricingCache, day).model_breakdown

\* a daily entry of a priced record and a record of a model with no pricing
C3_Witness ==
    /\ report.kind = "daily"
    /\ report.status = "ok"
    /\ \E n \in 1..Len(report.entries) :
          /\ report.entries[n].record_count >= 2
          /\ report.entries[n].total_cost > 0
          /\ \E i \in 1..Len(DayRecords(report.entries[n])) :
                Unpriced(DayRecords(report.entries[n])[i])

-----------------------------------------------------------------------------
(* Properties of the data loader *)

\* a line of JSON from which both a timestamp and a model can be extracted
Extractable(line) ==
    /\ line.text = "json"
    /\ IsDict(line.data)
    /\ ExtractTimestamp(line.data) # None
    /\ ExtractModel(line.data) # None

\* the last call scanned the files as they are now, every file and the
\* directory readable, and returned
ScannedAll ==
    /\ loadResult.status = "ok"
    /\ loadResult.scanned
    /\ loadResult.scanOk
    /\ loadResult.denied = {}

\* the lines of the accepted files from which a timestamp and a model can
\* be extracted, as <<file, line>> places
ExtractablePlaces ==
    {p \in (1..Len(logFiles)) \X (1..MaxLines + 1) :
        /\ IsClaudeUsageFile(logFiles[p[1]], FALSE)
        /\ p[2] <= Len(logFiles[p[1]])
        /\ Extractable(logFiles[p[1]][p[2]])}

\* C9: a parsed JSON line yields a UsageRecord if and only if both a
\* timestamp and a model can be extracted from it, absent token counts
\* counting as 0: a scan of readable files returns one record for each such
\* line of the accepted files, carrying the line's timestamp and model, and
\* no other record.
C9_RecordIffTimestampAndModel ==
    ScannedAll =>
        /\ Len(loadResult.records) = Cardinality(ExtractablePlaces)
        /\ \A p \in ExtractablePlaces :
              \E n \in 1..Len(loadResult.records) :
                 LET data == logFiles[p[1]][p[2]].data
                     r == loadResult.records[n]
                 IN /\ r.timestamp = ExtractTimestamp(data)[1].ts
                    /\ r.model = ExtractModel(data)[1]

\* C10: load_usage_data never raises to its caller, whatever the files hold
\* and whatever mix of the accepted timestamp formats the lines carry.
C10_LoadNeverRaises == loadResult.status \in {"none", "ok"}

\* the lines of the accepted files that give a record when parsed, as
\* <<file, line>> places
RecordPlaces ==
    {p \in (1..Len(logFiles)) \X (1..MaxLines + 1) :
        /\ IsClaudeUsageFile(logFiles[p[1]], FALSE)
        /\ p[2] <= Len(logFiles[p[1]])
        /\ logFiles[p[1]][p[2]].text = "json"
        /\ ParseUsageRecord(logFiles[p[1]][p[2]].data) # None}

\* C11: within an accepted file each line is parsed on its own: a line
\* that is not JSON, does not decode or fails field extraction never aborts
\* the file, so a scan of readable files returns the record of every line
\* of an accepted file that yields one.
C11_BadLineNeverAbortsFile ==
    ScannedAll =>
        \A p \in RecordPlaces :
           \E n \in 1..Len(loadResult.records) :
              loadResult.records[n] =
                 ParseUsageRecord(logFiles[p[1]][p[2]].data)[1]

\* C12: the record sequence is computed once and cached.  A call made
\* with a cache set and force_reload=False returns the cached sequence
\* without scanning and leaves the cache as it is, whatever the files hold
\* now and also when the cached sequence is empty; a call scans only when
\* force_reload is set or no cache is set; and no cache is set only before
\* a call has returned, after clear_cache, or after a call that raised.
C12_ComputedOnceAndCached ==
    [][ /\ (loadResult'.status # "none" /\ usageCache # None
            /\ ~loadResult'.force_reload) =>
              /\ ~loadResult'.scanned
              /\ loadResult'.status = "ok"
              /\ loadResult'.records = usageCache[1]
              /\ usageCache' = usageCache
        /\ (loadResult'.status # "none" /\ loadResult'.scanned) =>
              (loadResult'.force_reload \/ usageCache = None)
        /\ loadResult'.status = "ok" =>
              /\ usageCache' # None
              /\ loadResult'.records = usageCache'[1]
        /\ (usageCache' = None /\ usageCache # None) =>
              loadResult' = NoLoad
      ]_vars

\* an unforced call answered from an empty cached sequence although a file
\* now holds a line that yields a record
C12_Witness ==
    /\ loadResult.status = "ok"
    /\ ~loadResult.scanned
    /\ ~loadResult.force_reload
    /\ loadResult.records = <<>>
    /\ RecordPlaces # {}

\* the places of RecordPlaces in files that hold no undecodable bytes, in
\* file-encounter then line-encounter order
RECURSIVE InEncounterOrder(_)
InEncounterOrder(places) ==
    IF places = {} THEN <<>>
    ELSE LET first == CHOOSE p \in places :
                         \A q \in places :
                            p[1] < q[1] \/ (p[1] = q[1] /\ p[2] <= q[2])
         IN <<first>> \o InEncounterOrder(places \ {first})

\* the records of the lines read, in the order the scan meets them
Encountered ==
    LET places == InEncounterOrder(
                    {p \in RecordPlaces :
                        \A i \in 1..Len(logFiles[p[1]]) :
                           logFiles[p[1]][i].text # "undecodable"})
    IN [n \in 1..Len(places) |->
          ParseUsageRecord(logFiles[places[n][1]][places[n][2]].data)[1]]

\* r put into a list in timestamp order, behind every record whose
\* timestamp is not later than its own
InsertBehind(sorted, r) ==
    LET before == Cardinality({i \in 1..Len(sorted) :
                                  sorted[i].timestamp <= r.timestamp})
    IN SubSeq(sorted, 1, before) \o <<r>>
       \o SubSeq(sorted, before + 1, Len(sorted))

\* the records of recs put one after the other into timestamp order
RECURSIVE InTimestampOrder(_)
InTimestampOrder(recs) ==
    IF recs = <<>> THEN <<>>
    ELSE InsertBehind(InTimestampOrder(SubSeq(recs, 1, Len(recs) - 1)),
                      recs[Len(recs)])

\* C13: the sequence load_usage_data returns, scanned or cached, is in
\* non-decreasing timestamp order, and a scan returns the records in the
\* order the files and lines were met wherever timestamps are equal.
C13_SortedByTimestampStable ==
    /\ loadResult.status = "ok" =>
          \A i \in 1..(Len(loadResult.records) - 1) :
             loadResult.records[i].timestamp
                <= loadResult.records[i + 1].timestamp
    /\ ScannedAll => loadResult.records = InTimestampOrder(Encountered)

\* a scan that returned two different records of the same timestamp
C13_Witness ==
    /\ ScannedAll
    /\ Len(loadResult.records) = 2
    /\ loadResult.records[1].timestamp = loadResult.records[2].timestamp
    /\ loadResult.records[1] # loadResult.records[2]

\* the records of session sid in the range of the report made last
SessionInRange(sid) ==
    SelectSeq(ReportedRange, LAMBDA r : r.session_id = sid)

\* the largest number of a non-empty set
SetMax(S) == CHOOSE x \in S : \A y \in S : y <= x

\* C14: a session report that is returned holds, for every session_id with
\* N records in the range whose least and greatest timestamps are t1 and t2,
\* exactly one entry, with start_time t1, end_time t2, duration_minutes
\* t2 - t1 (0 when N = 1), message_count N, and the project_id and
\* project_name of a record of the session at t1; it holds no other entry.
C14_SessionEntryPerSession ==
    (report.kind = "session" /\ report.status = "ok") =>
        LET sids == {ReportedRange[i].session_id :
                        i \in 1..Len(ReportedRange)}
        IN /\ Len(report.entries) = Cardinality(sids)
           /\ \A sid \in sids :
                LET recs == SessionInRange(sid)
                    stamps == {recs[i].timestamp : i \in 1..Len(recs)}
                    t1 == SetMin(stamps)
                    t2 == SetMax(stamps)
                    of == {n \in 1..Len(report.entries) :
                              report.entries[n].session_id = sid}
                IN /\ Cardinality(of) = 1
                   /\ \A n \in of :
                        /\ report.entries[n].start_time.ts = t1
                        /\ report.entries[n].end_time.ts = t2
                        /\ report.entries[n].duration_minutes = t2 - t1
                        /\ Len(recs) = 1 =>
                              report.entries[n].duration_minutes = 0
                        /\ report.entries[n].message_count = Len(recs)
                        /\ \E i \in 1..Len(recs) :
                              /\ recs[i].timestamp = t1
                              /\ report.entries[n].project_id
                                    = recs[i].project_id
                              /\ report.entries[n].project_name
                                    = recs[i].project_name

\* a session report of two sessions; one of them has two records in the
\* range, given latest first, and its earliest record names a project
C14_Witness ==
    /\ report.kind = "session"
    /\ report.status = "ok"
    /\ Len(report.entries) = 2
    /\ \E n \in 1..2 :
          /\ report.entries[n].message_count = 2
          /\ report.entries[n].duration_minutes > 0
          /\ report.entries[n].project_id # None
          /\ \E i \in 1..Len(records) :
                /\ records[i].session_id = report.entries[n].session_id
                /\ records[i].project_id = None
                /\ \A j \in 1..Len(records) :
                      records[j].session_id = records[i].session_id => i <= j

\* the date of ts at hour (hour_of_day // 5) * 5, in minutes
BlockAnchor(ts) ==
    LET hour_of_day == (ts - DateOf(ts) * MinutesPerDay) \div 60
    IN At(DateOf(ts), (hour_of_day \div 5) * 5, 0)

\* the records in the range of the report made last whose block anchor is b
BlockInRange(b) ==
    SelectSeq(ReportedRange, LAMBDA r : BlockAnchor(r.timestamp) = b)

\* C15: a blocks report that is returned has one entry per (calendar date,
\* hour_of_day // 5) met among the records in the range, so that two records
\* share an entry iff they agree on both; the entry's block_start is that
\* date at hour (hour_of_day // 5) * 5, block_end is five hours later,
\* sessions_count counts the distinct session_ids of its records and
\* active_duration_minutes is their last minus first timestamp.  06:10 and
\* 07:45 share block 05:00, 11:02 is in block 10:00.
C15_BlocksAreMidnightAligned ==
    /\ GetBlockStart(At(0, 6, 10)) = At(0, 5, 0)
    /\ GetBlockStart(At(0, 7, 45)) = At(0, 5, 0)
    /\ GetBlockStart(At(0, 11, 2)) = At(0, 10, 0)
    /\ (report.kind = "blocks" /\ report.status = "ok") =>
          LET anchors == {BlockAnchor(ReportedRange[i].timestamp) :
                             i \in 1..Len(ReportedRange)}
          IN /\ Len(report.entries) = Cardinality(anchors)
             /\ {report.entries[n].block_start :
                    n \in 1..Len(report.entries)} = anchors
             /\ \A n \in 1..Len(report.entries) :
                  LET e == report.entries[n]
                      recs == BlockInRange(e.block_start)
                      stamps == {recs[i].timestamp : i \in 1..Len(recs)}
                  IN /\ e.block_end = e.block_start + 5 * 60
                     /\ e.sessions_count =
                           Cardinality({recs[i].session_id :
                                          i \in 1..Len(recs)})
                     /\ e.active_duration_minutes
                           = SetMax(stamps) - SetMin(stamps)
                     /\ e.total_tokens =
                           SumSeq([i \in 1..Len(recs) |->
                                     TotalTokens(recs[i])])

\* a blocks report of two blocks of one day, one of them with records of two
\* sessions at different times
C15_Witness ==
    /\ report.kind = "blocks"
    /\ report.status = "ok"
    /\ Len(report.entries) = 2
    /\ \E n \in 1..2 :
          /\ report.entries[n].sessions_count = 2
          /\ report.entries[n].active_duration_minutes > 0
    /\ DateOf(report.entries[1].block_start)
          = DateOf(report.entries[2].block_start)

\* the day of the week of day d, 0 for Monday: day 0 is a Monday
WeekdayOfDay(d) == d % 7

\* the one day on weekday wsd that is no later than the date of ts and at
\* most 6 days before it
WeekAnchorDay(ts, wsd) ==
    CHOOSE d \in (DateOf(ts) - 6)..DateOf(ts) : WeekdayOfDay(d) = wsd

\* the first day of the month the date of ts lies in: months of 31, 29 and
\* 31 days from day 0
MonthAnchorDay(ts) ==
    SetMax({d \in {0, 31, 31 + 29} : d <= DateOf(ts)})

\* the anchor, in days, of record r in the calendar report made last
AnchorDay(r) ==
    CASE report.kind = "daily" -> DateOf(r.timestamp)
      [] report.kind = "monthly" -> MonthAnchorDay(r.timestamp)
      [] report.kind = "weekly" ->
            WeekAnchorDay(r.timestamp, report.week_start_day)

\* C16: the entries of a daily, monthly or weekly report are anchored at
\* midnight of the record's date, of the first day of its month, or of the
\* day (weekday - week_start_day) mod 7 days before its date; for every
\* week_start_day in 0..6 that weekly anchor falls on weekday week_start_day,
\* at most 6 days before the record's date and never after it; and two
\* records in the range share an entry iff they have the same anchor.
C16_CalendarAnchors ==
    /\ \A i \in 1..Len(records), wsd \in 0..6 :
          LET ts == records[i].timestamp
              anchor == GetWeekStart(ts, wsd)
          IN /\ anchor = (DateOf(ts)
                           - ((WeekdayOfDay(DateOf(ts)) - wsd) % 7))
                         * MinutesPerDay
             /\ anchor = WeekAnchorDay(ts, wsd) * MinutesPerDay
             /\ WeekdayOfDay(anchor \div MinutesPerDay) = wsd
             /\ anchor <= ts
             /\ DateOf(ts) * MinutesPerDay - anchor <= 6 * MinutesPerDay
    /\ CalendarReturned =>
          LET anchors == {AnchorDay(ReportedRange[i]) * MinutesPerDay :
                             i \in 1..Len(ReportedRange)}
          IN /\ Len(report.entries) = Cardinality(anchors)
             /\ {report.entries[n].date : n \in 1..Len(report.entries)}
                   = anchors
             /\ \A n \in 1..Len(report.entries) :
                   report.entries[n].record_count =
                      Cardinality({i \in 1..Len(ReportedRange) :
                         AnchorDay(ReportedRange[i]) * MinutesPerDay
                            = report.entries[n].date})

\* a weekly report with weeks starting on Sunday: two weeks, one of them
\* holding records of two different dates
C16_Witness ==
    /\ report.kind = "weekly"
    /\ report.status = "ok"
    /\ report.week_start_day = 6
    /\ Len(report.entries) = 2
    /\ \E n \in 1..2 : report.entries[n].record_count = 2
    /\ \E i, j \in 1..Len(ReportedRange) :
          /\ DateOf(ReportedRange[i].timestamp)
                # DateOf(ReportedRange[j].timestamp)
          /\ GetWeekStart(ReportedRange[i].timestamp, 6)
                = GetWeekStart(ReportedRange[j].timestamp, 6)

\* the temporal anchor of entry e of the report made last
EntryAnchor(e) ==
    CASE report.kind \in {"daily", "weekly", "monthly"} -> e.date
      [] report.kind = "session" -> e.start_time.ts
      [] report.kind = "blocks" -> e.block_start

\* the partition record r belongs to in the report made last
PartitionOf(r) ==
    CASE report.kind \in {"daily", "weekly", "monthly"} -> AnchorDay(r)
      [] report.kind = "session" -> r.session_id
      [] report.kind = "blocks" -> BlockAnchor(r.timestamp)

\* the report made last was returned
Returned == report.kind # "none" /\ report.status = "ok"

\* the report made last has one entry per partition met in its range
OneEntryPerPartition ==
    Len(report.entries) =
       Cardinality({PartitionOf(ReportedRange[i]) :
                       i \in 1..Len(ReportedRange)})

\* the anchors of the report made last run in its order, strictly or not
AnchorsInOrder(strictly) ==
    \A n \in 1..(Len(report.entries) - 1) :
       LET a == EntryAnchor(report.entries[n])
           b == EntryAnchor(report.entries[n + 1])
       IN /\ report.order = "desc" => (IF strictly THEN a > b ELSE a >= b)
          /\ report.order = "asc" => (IF strictly THEN a < b ELSE a <= b)

C18_ReportOverInclusiveRange ==
    (/\ report.kind \in {"daily", "weekly", "monthly"}
     /\ (report.start # None \/ report.end # None)) =>
        /\ report.status = "ok"
        /\ OverEntries("record_count") = Len(ReportedRange)
        /\ OverEntries("total_tokens") =
              SumSeq([i \in 1..Len(ReportedRange) |->
                        TotalTokens(ReportedRange[i])])

\* the last report was called with an end date before its start date
EndBeforeStart ==
    /\ report.start # None
    /\ report.end # None
    /\ report.end[1].ts < report.start[1].ts

\* C19: a report generator called with an end date before the start date,
\* and generate_weekly_report called with a week_start_day outside 0..6,
\* raise an error: they do not return a report, empty or otherwise.
C19_InvalidArgumentsRaise ==
    (/\ report.kind # "none"
     /\ \/ EndBeforeStart
        \/ report.kind = "weekly" /\ report.week_start_day \notin 0..6) =>
        report.status # "ok"

\* the records in the range of the report made last whose model resolves to
\* no pricing
UnpricedInRange == SelectSeq(ReportedRange, Unpriced)

\* C20: a report generated over records of which k >= 1 have a model that
\* resolves to no pricing leaves a failed-calculation count of k where the
\* caller can read it: in the entries of the report, summed over them, or in
\* what calculate_total_cost returns for the records of the report.
C20_FailedCountReadable ==
    (CalendarReturned /\ Len(UnpricedInRange) >= 1) =>
        \/ /\ \A n \in 1..Len(report.entries) :
                 "failed_calculations" \in DOMAIN report.entries[n]
           /\ OverEntries("failed_calculations") = Len(UnpricedInRange)
        \/ /\ "failed_calculations"
                 \in DOMAIN CalculateTotalCost(pricingCache, ReportedRange)
           /\ CalculateTotalCost(pricingCache, ReportedRange)
                 ["failed_calculations"] = Len(UnpricedInRange)

\* the records in the range of the calendar report made last that fall
\* under the anchor of entry e
EntryRecords(e) ==
    SelectSeq(ReportedRange,
              LAMBDA r : AnchorDay(r) * MinutesPerDay = e.date)

\* field f of the breakdown of entry e, summed over its models: each model
\* is taken at the first of the records recs that names it
OverModels(e, recs, f) ==
    SumSeq([i \in 1..Len(recs) |->
              IF \A j \in 1..(i - 1) : recs[j].model # recs[i].model
              THEN e.model_breakdown[recs[i].model][f] ELSE 0])

LoggedObjects ==
    {logFiles[f][i].data :
        <<f, i>> \in {p \in (1..Len(logFiles)) \X (1..MaxLines + 1) :
                         /\ p[2] <= Len(logFiles[p[1]])
                         /\ logFiles[p[1]][p[2]].text = "json"
                         /\ IsDict(logFiles[p[1]][p[2]].data)}}

\* the datetime of the first field present among timestamp, created_at and
\* time, nothing when none is present or when its value does not parse
FirstPresentTimestamp(data) ==
    IF Has(data, "timestamp") THEN TimestampOf(Field(data, "timestamp"))
    ELSE IF Has(data, "created_at") THEN TimestampOf(Field(data, "created_at"))
    ELSE IF Has(data, "time") THEN TimestampOf(Field(data, "time"))
    ELSE None

\* C22: the timestamp of a record comes from the first field present among
\* timestamp, created_at and time, and a line whose first present field does
\* not parse gives no record: every record a scan returns is the record of a
\* line whose first present field parses, and carries that datetime.
C22_FirstPresentFieldWins ==
    ScannedAll =>
        \A n \in 1..Len(loadResult.records) :
           \E data \in LoggedObjects :
              /\ ParseUsageRecord(data) = Some(loadResult.records[n])
              /\ FirstPresentTimestamp(data) # None
              /\ FirstPresentTimestamp(data)[1].ts
                    = loadResult.records[n].timestamp

\* the line parses as one JSON object holding a usage-shaped field: a usage
\* object with a token count, or a model, token or timestamp field at the
\* top level
UsageShaped(line) ==
    /\ line.text = "json"
    /\ IsDict(line.data)
    /\ \/ /\ Has(line.data, "usage")
          /\ IsDict(Field(line.data, "usage"))
          /\ \E f \in {"input_tokens", "output_tokens",
                       "cache_creation_tokens", "cache_read_tokens"} :
                Has(Field(line.data, "usage"), f)
       \/ \E f \in {"model", "tokens", "input_tokens", "output_tokens",
                    "created_at", "timestamp"} : Has(line.data, f)

\* one of the first 3 non-empty lines of the file is usage-shaped
PassesProbe(file) ==
    \E i \in 1..Len(file) :
       /\ UsageShaped(file[i])
       /\ Cardinality({j \in 1..i : file[j].text # "blank"}) <= 3

\* C23: discovery accepts a log file exactly when one of its first 3
\* non-empty lines parses as a JSON object with a usage-shaped field, and a
\* scan of readable files returns the records of the lines of the files that
\* pass this probe and of no other file.
C23_AcceptedIffProbePasses ==
    /\ \A f \in 1..Len(logFiles) :
          IsClaudeUsageFile(logFiles[f], FALSE) <=> PassesProbe(logFiles[f])
    /\ ScannedAll =>
          \A f \in 1..Len(logFiles), i \in 1..MaxLines + 1 :
             (/\ i <= Len(logFiles[f])
              /\ logFiles[f][i].text = "json"
              /\ ParseUsageRecord(logFiles[f][i].data) # None) =>
                (PassesProbe(logFiles[f]) <=>
                   \E n \in 1..Len(loadResult.records) :
                      loadResult.records[n]
                         = ParseUsageRecord(logFiles[f][i].data)[1])

\* C24: every record load_usage_data returns has four token counts that
\* are non-negative integers, and so a total_tokens that is non-negative and
\* equal to their sum, whatever numbers the log line carried.
C24_TokenCountsNonNegative ==
    loadResult.status = "ok" =>
        \A n \in 1..Len(loadResult.records) :
           LET r == loadResult.records[n]
           IN /\ r.input_tokens \in Nat
              /\ r.output_tokens \in Nat
              /\ r.cache_creation_tokens \in Nat
              /\ r.cache_read_tokens \in Nat
              /\ TotalTokens(r) \in Nat
              /\ TotalTokens(r) = r.input_tokens + r.output_tokens
                                  + r.cache_creation_tokens
                                  + r.cache_read_tokens

\* tokens in the unit the manual estimate of test_cost_calc.py divides by
PerMillion == 1000000

\* 20 times the manual estimate for a record, in dollars:
\* input/1,000,000 * 3.0 + output/1,000,000 * 15.0
\* + cache_creation/1,000,000 * 3.75 + cache_read/1,000,000 * 0.30,
\* times PerMillion
ManualEstimateTimes20(r) ==
    60 * r.input_tokens + 300 * r.output_tokens
    + 75 * r.cache_creation_tokens + 6 * r.cache_read_tokens

\* C25: the built-in Sonnet rates are prices per million tokens: a record
\* priced by calculate_cost at the built-in Sonnet entry costs what the manual
\* estimate says, input/1,000,000 * 3.0 + output/1,000,000 * 15.0
\* + cache_creation/1,000,000 * 3.75 + cache_read/1,000,000 * 0.30 dollars.
C25_SonnetRatesPerMillion ==
    (/\ costCall # None
     /\ costCall[1].pricing = Some(Get(DEFAULT_PRICING, SonnetKey))) =>
        /\ costCall[1].result # None
        /\ 20 * costCall[1].result[1].total_cost
             = (UnitsPerDollar \div PerMillion)
               * ManualEstimateTimes20(costCall[1].record)

\* a blocks report was returned
BlocksReturned == report.kind = "blocks" /\ report.status = "ok"

\* C26: block_number identifies a block: two entries of a blocks report with
\* distinct block_start values never carry the same block_number.
C26_BlockNumberIdentifiesBlock ==
    BlocksReturned =>
        \A i, j \in 1..Len(report.entries) :
           report.entries[i].block_start # report.entries[j].block_start =>
              report.entries[i].block_number # report.entries[j].block_number

\* C27: in a blocks report at most one entry is the current block, and the
\* windows [block_start, block_end) of two distinct entries never overlap,
\* whatever "now" is and whatever the records are.
C27_OneCurrentBlockNoOverlap ==
    BlocksReturned =>
        \A i, j \in 1..Len(report.entries) :
           i # j =>
              /\ ~(report.entries[i].is_current_block
                   /\ report.entries[j].is_current_block)
              /\ \/ report.entries[i].block_end <= report.entries[j].block_start
                 \/ report.entries[j].block_end <= report.entries[i].block_start

\* the callers that are between the cache test and the return of
\* load_usage_data, reading the files
Scanning ==
    {t \in 1..Len(gui.threads) : gui.threads[t] = "scanning"}
    \cup (IF gui.main = "scanning" THEN {0} ELSE {})

\* C28: the window serializes its calls into the loader: while a background
\* thread is scanning inside load_usage_data no handler of the main thread
\* starts a second scan, so at most one scan of the files is in progress at
\* any time.
C28_AtMostOneScan == Cardinality(Scanning) <= 1

\* the persisted cache gives no entry: no file, an unreadable one, or one
\* without pricing entries
PersistedEmpty(f) == ~(f.exists /\ f.parsable) \/ f.pricing = <<>>

UnparsableConfigLoading ==
    /\ config.pc = "load"
    /\ config.depth = 1
    /\ config.file = "unparsable"
    /\ \A i \in 1..Len(config.backups) : config.backups[i] # "invalid"

\* load_config has returned a configuration
UsableConfig ==
    /\ config.pc = "done"
    /\ config.outcome \in {"loaded", "default"}

\* C30: load_config always ends with a usable configuration: over a file
\* that cannot be parsed it restores the most recent backup and retries, and
\* whatever the backups hold, unparsable ones included, the retries end with
\* a loaded configuration or with the default configuration saved.
C30_LoadConfigEndsUsable == UnparsableConfigLoading ~> UsableConfig

=============================================================================
